---- MODULE Spec2Model ----
(***************************************************************************)
(* SWAP v1 signalling relay (swap-protocol/src/core/SwapServer.js) and its *)
(* matching engine (swap-protocol/src/matching/MatchingEngine.js).         *)
(*                                                                         *)
(* JavaScript Maps whose iteration order is observable (endpoints,         *)
(* MatchingEngine.registry, activeSessions) are sequences of entries in    *)
(* insertion order; Maps that are only probed by key (registeredEndpoints, *)
(* pendingConnections) are functions on their key set.                     *)
(***************************************************************************)
EXTENDS Integers, Sequences, FiniteSets, TLC

\* ------------------------------------------------------------------ bounds
MaxReceived == 3        \* frames the relay reads in one run
MaxCriteria == 2        \* longest criteria list given to the matching engine
RandomSteps == 3        \* Math.random() yields r / RandomSteps, r in 0..RandomSteps-1
MaxTasks == 1           \* dispatches suspended in a crypto operation at once
MaxSessionFrames == 4   \* frames read in a run of the session specification
MaxCalls == 2           \* calls of SwapClient methods in one run
MaxSends == 3           \* calls of WebSocketTransport.send in one run
MaxAttempts == 2        \* options.reconnect.maxAttempts of the transports of a run
MaxEnvelopeSteps == 2   \* sign()/encrypt() calls on one message

\* --------------------------------------------------------------- constants
Null == "null"
serverSource == "server-0f3a9c"
EndpointA == "ep-requestor"
EndpointB1 == "ep-responder1"
EndpointB2 == "ep-responder2"
Sources == {EndpointA, EndpointB1, EndpointB2}
Transports == {1, 2}

JsonString(s) == [kind |-> "string", text |-> s]
ServiceVideo == [type |-> "service", value |-> JsonString("video")]
QosHigh == [type |-> "qos", value |-> JsonString("high")]
ServiceGhost == [type |-> "service", value |-> JsonString("ghost")]

\* ------------------------------------------------------ ordered Map helpers
MapHas(m, k) == \E i \in 1..Len(m) : m[i].k = k
MapGet(m, k) == m[CHOOSE i \in 1..Len(m) : m[i].k = k].v
MapSet(m, k, v) ==
  IF MapHas(m, k)
    THEN [i \in 1..Len(m) |-> IF m[i].k = k THEN [k |-> k, v |-> v] ELSE m[i]]
    ELSE Append(m, [k |-> k, v |-> v])
MapDelete(m, k) == SelectSeq(m, LAMBDA e : e.k # k)
MapKeys(m) == {m[i].k : i \in 1..Len(m)}

SeqToSet(s) == {s[i] : i \in 1..Len(s)}
SeqMax(s) == CHOOSE x \in SeqToSet(s) : \A y \in SeqToSet(s) : y <= x

\* -------------------------------------------------------- MatchingEngine.js
\* JSON.stringify of a criterion value
JSONStringify(v) == IF v.kind = "string" THEN "\"" \o v.text \o "\"" ELSE v.text

criterionKey(c) == c.type \o "::" \o JSONStringify(c.value)

criteriaSet(criteria) == {criterionKey(criteria[i]) : i \in 1..Len(criteria)}

registerBeside(reg, endpointId, criteria) ==
  Append(reg, [k |-> endpointId, v |-> [criteria |-> criteria]])
register(reg, endpointId, criteria) == MapSet(reg, endpointId, [criteria |-> criteria])

unregister(reg, endpointId) == MapDelete(reg, endpointId)

\* the for-loop over querySet: ok stays true iff no key is missing from regSet
AnyOk(regSet, querySet) == \E key \in querySet : key \in regSet
AllOk(regSet, querySet) == \A key \in querySet : key \in regSet

findMatches(reg, criteria) ==
  LET querySet == criteriaSet(criteria)
      ok(entry) == AllOk(criteriaSet(entry.v.criteria), querySet)
      hits == SelectSeq(reg, ok)
  IN [i \in 1..Len(hits) |-> hits[i].k]

criteriaCount(reg, endpointId) ==
  IF MapHas(reg, endpointId) THEN Len(MapGet(reg, endpointId).criteria) ELSE 0

TopFirstOnly(reg, matches) == SelectSeq(matches, LAMBDA id : id = matches[1])
TopByCount(reg, matches) ==
  LET scored == [i \in 1..Len(matches) |-> criteriaCount(reg, matches[i])]
      max == SeqMax(scored)
  IN SelectSeq(matches, LAMBDA id : criteriaCount(reg, id) = max)

selectFirst(reg, matches, r) == IF Len(matches) = 0 THEN Null ELSE matches[1]

\* r stands for Math.random() = r / RandomSteps
selectEndpoint(reg, matches, r) ==
  IF Len(matches) = 0 THEN Null
  ELSE LET top == TopByCount(reg, matches)
       IN top[((r * Len(top)) \div RandomSteps) + 1]

\* ------------------------------------------------------------ wire messages
\* A message is [version, source_id, message_id, message_type, body, security];
\* body holds the kind-specific fields that are present in plaintext.
NoSecurity == [present |-> FALSE]
Undefined == "undefined"
NoPayload == <<>>

MessageTypes ==
  {"register", "response", "connect", "accept", "reject", "update", "close", "application"}

Message(src, mid, type, body) ==
  [version |-> 1, source_id |-> src, message_id |-> mid, message_type |-> type,
   body |-> body, security |-> NoSecurity]

HasField(m, f) == f \in DOMAIN m.body
TargetOf(m) == IF HasField(m, "target") THEN m.body.target ELSE Undefined
CriteriaOf(m) == IF HasField(m, "criteria") THEN m.body.criteria ELSE <<>>
OfferOf(m) == IF HasField(m, "offer") THEN m.body.offer ELSE Undefined

NoCapabilities == [security |-> [integrity |-> FALSE, encryption |-> FALSE]]
SecureCapabilities == [security |-> [integrity |-> TRUE, encryption |-> TRUE]]
CapabilitiesOf(m) == IF HasField(m, "capabilities") THEN m.body.capabilities ELSE NoCapabilities
wantsSec(caps) == caps.security.integrity \/ caps.security.encryption

\* ------------------------------------------------------- SecurityManager.js
\* Keys are strings: the HMAC key is the shared secret, the AES key is the
\* secret joined with the PBKDF2 salt.  A ciphertext records the key and the
\* plaintext payload; a signature records the key and the signed object.
SharedSecret == "secret123"

SecurityManager(enabled, integrity, encryption, sharedSecret) ==
  [enabled |-> enabled, integrity |-> integrity, encryption |-> encryption,
   sharedSecret |-> sharedSecret, salt |-> Null, aesKey |-> Null, hmacKey |-> Null]

\* the same configuration with config.salt set
WithSalt(sec, salt) == [sec EXCEPT !.salt = salt]

SecurityInit(sec, sourceId) ==
  IF ~sec.enabled THEN sec
  ELSE [sec EXCEPT
         !.aesKey = IF sec.encryption
                      THEN sec.sharedSecret \o "|"
                             \o (IF sec.salt # Null THEN sec.salt ELSE "swap-v1:" \o sourceId)
                      ELSE @,
         !.hmacKey = IF sec.integrity THEN sec.sharedSecret ELSE @]

Encrypt(payload, aesKey) == [key |-> aesKey, plain |-> payload]
Sign(obj, hmacKey) == [key |-> hmacKey, data |-> obj]

\* does prepareOutgoing have to call init(), and does init() throw
OutgoingNeedsInit(sec) ==
  sec.enabled /\ ((sec.encryption /\ sec.aesKey = Null) \/ (sec.integrity /\ sec.hmacKey = Null))
OutgoingThrows(sec) == OutgoingNeedsInit(sec) /\ sec.sharedSecret = Null
\* does prepareOutgoing wait for a WebCrypto operation
OutgoingCrypto(sec) == sec.enabled /\ (sec.encryption \/ sec.integrity) /\ ~OutgoingThrows(sec)

KeysAfterOutgoing(sec, m) ==
  IF OutgoingNeedsInit(sec) /\ ~OutgoingThrows(sec) THEN SecurityInit(sec, m.source_id) ELSE sec

prepareOutgoing(sec, m) ==
  IF ~sec.enabled THEN m
  ELSE LET keys == KeysAfterOutgoing(sec, m)
           block == [present |-> TRUE,
                     enc |-> IF sec.encryption THEN "AES-GCM" ELSE "none",
                     mac |-> IF sec.integrity THEN "HMAC-SHA256" ELSE "none"]
           sealed == IF sec.encryption
                       THEN block @@ [ciphertext |-> Encrypt(m.body, keys.aesKey), iv |-> "iv"]
                       ELSE block
           out == [m EXCEPT !.body = IF sec.encryption THEN NoPayload ELSE m.body,
                            !.security = sealed]
       IN IF sec.integrity
            THEN [out EXCEPT !.security = sealed @@ [signature |-> Sign(out, keys.hmacKey)]]
            ELSE out

\* the payload a frame carries, in plaintext or inside its ciphertext
PayloadOf(f) ==
  IF f.security.present /\ "ciphertext" \in DOMAIN f.security
    THEN f.security.ciphertext.plain ELSE f.body

WithoutField(r, f) == [x \in DOMAIN r \ {f} |-> r[x]]

\* unpackIncoming: does it wait for WebCrypto, does it throw, what does it return
IncomingVerifies(sec, m) ==
  m.security.present /\ sec.enabled /\ sec.integrity /\ "signature" \in DOMAIN m.security
IncomingDecrypts(sec, m) ==
  m.security.present /\ sec.enabled /\ sec.encryption
    /\ "ciphertext" \in DOMAIN m.security /\ "iv" \in DOMAIN m.security
IncomingCrypto(sec, m) == IncomingVerifies(sec, m) \/ IncomingDecrypts(sec, m)

KeysAfterIncoming(sec, m) ==
  IF IncomingCrypto(sec, m) /\ sec.sharedSecret # Null
       /\ ((IncomingVerifies(sec, m) /\ sec.hmacKey = Null)
             \/ (IncomingDecrypts(sec, m) /\ sec.aesKey = Null))
    THEN SecurityInit(sec, m.source_id) ELSE sec

IncomingThrows(sec, m) ==
  LET keys == KeysAfterIncoming(sec, m)
      toVerify == [m EXCEPT !.security = WithoutField(m.security, "signature")]
  IN \/ IncomingVerifies(sec, m)
          /\ (keys.hmacKey = Null \/ m.security.signature # Sign(toVerify, keys.hmacKey))
     \/ IncomingDecrypts(sec, m)
          /\ (keys.aesKey = Null \/ m.security.ciphertext.key # keys.aesKey)

unpackIncoming(sec, m) ==
  IF IncomingDecrypts(sec, m)
    THEN [m EXCEPT !.body = m.security.ciphertext.plain, !.security = NoSecurity]
    ELSE m

\* ------------------------------------------------------------- Validator.js
RequiredFields(type) ==
  CASE type = "register" -> {"criteria"}
    [] type = "response" -> {"response_to", "status", "reason"}
    [] type = "connect" -> {"offer", "criteria"}
    [] type = "accept" -> {"target", "answer"}
    [] type = "reject" -> {"target", "reason"}
    [] type = "update" -> {"target", "sdp"}
    [] type = "close" -> {"target"}
    [] type = "application" -> {"target", "type", "value"}
    [] OTHER -> {}

AllowedFields(type) ==
  IF type = "register" THEN {"criteria", "capabilities"}
  ELSE IF type = "response" THEN {"response_to", "status", "reason", "error"}
  ELSE RequiredFields(type)

validateMessageShape(m) ==
  /\ m.message_type \in MessageTypes
  /\ m.version = 1
  /\ Len(m.source_id) >= 10
  /\ m.message_id >= 1
  /\ \/ m.message_type \in {"response", "application"}
     \/ DOMAIN m.body \subseteq AllowedFields(m.message_type)
  /\ IF m.message_type = "response"
       THEN RequiredFields("response") \subseteq DOMAIN m.body
       ELSE RequiredFields(m.message_type) \subseteq DOMAIN m.body \/ m.security.present
  /\ HasField(m, "target") => Len(m.body.target) >= 10

\* ------------------------------------------- ProblemDetails / ResponseMessage
ProblemDetails(type, title, detail, status) ==
  [type |-> "http://forge.3gpp.org/sa4/swap/" \o type \o ".html",
   title |-> title, detail |-> detail, status |-> status]

TargetUnknown(detail) == ProblemDetails("target_unknown", "Target cannot be located", detail, 404)
MessageMalformatted(detail) ==
  ProblemDetails("message_malformatted", "Message malformatted", detail, 400)

nextMessageId(value) == (IF value < 0 THEN 0 ELSE value) + 1

ResponseUncorrelated(id, response_to, status, reason) ==
  [version |-> 1, source_id |-> serverSource, message_id |-> id, message_type |-> "response",
   body |-> [response_to |-> 0, status |-> status, reason |-> reason],
   security |-> NoSecurity]

ResponseMessage(id, response_to, status, reason) ==
  [version |-> 1, source_id |-> serverSource, message_id |-> id, message_type |-> "response",
   body |-> [response_to |-> response_to, status |-> status, reason |-> reason],
   security |-> NoSecurity]

ErrorResponse(id, response_to, problem) ==
  [version |-> 1, source_id |-> serverSource, message_id |-> id, message_type |-> "response",
   body |-> [response_to |-> response_to, status |-> 400, reason |-> "Bad Request",
             error |-> problem],
   security |-> NoSecurity]

CloseMessage(id, target, source_id) ==
  [version |-> 1, source_id |-> source_id, message_id |-> id, message_type |-> "close",
   body |-> [target |-> target], security |-> NoSecurity]

\* ------------------------------------------------------------ SwapServer.js
VARIABLES
  wsState,              \* per websocket: "idle" (not yet connected), "open", "closed", "down"
  endpoints,            \* this.endpoints: source_id -> ws, in insertion order
  registeredEndpoints,  \* this.registeredEndpoints: source_id -> [ws, criteria, capabilities]
  registry,             \* this.matching.registry: endpointId -> [criteria], in insertion order
  activeSessions,       \* this.activeSessions: entries [a, b, state] in insertion order
  pendingConnections,   \* this.pendingConnections: source_id -> [target, offer, messageId]
  security,             \* this.security: configuration and cached keys
  counter,              \* SwapMessage._counters[serverSource].value
  received,             \* number of frames read so far
  tasks,                \* dispatches suspended in a WebCrypto operation
  last,                 \* the handler run that completed in this step, with its writes
  probe,                \* last direct call of the matching engine and its result
  client,               \* a SwapClient: options, state machine, sessions, pending table, calls
  transport             \* its WebSocketTransport: socket, message queue, frames transmitted

vars == <<wsState, endpoints, registeredEndpoints, registry, activeSessions,
          pendingConnections, security, counter, received, tasks, last, probe,
          client, transport>>

relayVars == <<wsState, endpoints, registeredEndpoints, activeSessions,
               pendingConnections, security, counter, received, tasks, last,
               client, transport>>

\* the relay's tables as one value, so that handler steps compose
Relay == [endpoints |-> endpoints, registeredEndpoints |-> registeredEndpoints,
          registry |-> registry, activeSessions |-> activeSessions,
          pendingConnections |-> pendingConnections, security |-> security,
          counter |-> counter]

\* A handler run: the frame it was started for, the message after the security
\* unpack, the tables as _dispatch found them, and the frames written so far.
Tables(rs) ==
  [endpoints |-> rs.endpoints, registeredEndpoints |-> rs.registeredEndpoints,
   registry |-> rs.registry, activeSessions |-> rs.activeSessions]

IdleTask == [stage |-> "idle"]
NewTask(rs, ws, raw) ==
  [stage |-> "running", ws |-> ws, raw |-> raw, msg |-> raw, seen |-> Tables(rs),
   writes |-> <<>>]

Send(t, ws, frame) == [t EXCEPT !.writes = Append(@, [ws |-> ws, frame |-> frame])]
Done(rs, t) == [rs |-> rs, task |-> [t EXCEPT !.stage = "done"]]
Suspend(rs, t, stage, ws, frame) ==
  [rs |-> rs, task |-> [stage |-> stage, ws |-> t.ws, raw |-> t.raw, msg |-> t.msg,
                        seen |-> t.seen, writes |-> t.writes, to |-> ws, frame |-> frame]]

FunSet(f, k, v) == [x \in DOMAIN f \cup {k} |-> IF x = k THEN v ELSE f[x]]
FunDelete(f, k) == [x \in DOMAIN f \ {k} |-> f[x]]

\* _sendError: never wrapped in a security envelope
sendError(rs, t, responseTo, problem) ==
  LET id == nextMessageId(rs.counter)
  IN Done([rs EXCEPT !.counter = id], Send(t, t.ws, ErrorResponse(id, responseTo, problem)))

\* _ack
ack(rs, t) ==
  LET id == nextMessageId(rs.counter)
      resp == ResponseMessage(id, t.msg.message_id, 200, "OK")
      src == t.msg.source_id
      caps == IF src \in DOMAIN rs.registeredEndpoints
                THEN rs.registeredEndpoints[src].capabilities ELSE NoCapabilities
      rs1 == [rs EXCEPT !.counter = id]
  IN IF rs.security.enabled /\ wantsSec(caps)
       THEN IF OutgoingThrows(rs.security) THEN Done(rs1, Send(t, t.ws, resp))
            ELSE IF OutgoingCrypto(rs.security)
              THEN Suspend([rs1 EXCEPT !.security = KeysAfterOutgoing(rs.security, resp)],
                           t, "acking", t.ws, prepareOutgoing(rs.security, resp))
              ELSE Done(rs1, Send(t, t.ws, prepareOutgoing(rs.security, resp)))
       ELSE Done(rs1, Send(t, t.ws, resp))

\* what follows "await this._forwardTo(...)" in the handler of t.msg
RemoveFirst(sessions, a, b) ==
  LET match(s) == (s.a = a /\ s.b = b) \/ (s.b = a /\ s.a = b)
      hits == {i \in 1..Len(sessions) : match(sessions[i])}
  IN IF hits = {} THEN sessions
     ELSE LET first == CHOOSE i \in hits : \A j \in hits : i <= j
          IN [i \in 1..(Len(sessions) - 1) |-> IF i < first THEN sessions[i] ELSE sessions[i + 1]]

afterForward(rs, t) ==
  IF t.msg.message_type = "close"
    THEN ack([rs EXCEPT !.activeSessions = RemoveFirst(@, t.msg.source_id, TargetOf(t.msg))], t)
    ELSE ack(rs, t)

\* _forwardTo followed by the rest of the handler
RoutedEndpoint(rs, targetId) == targetId \in DOMAIN rs.registeredEndpoints

\* "let out = messageObj": the object _forwardTo starts from
messageAsRelay(t) == [t.msg EXCEPT !.source_id = serverSource]
messageObj(t) == t.msg

forwardTo(rs, t, targetId) ==
  IF ~RoutedEndpoint(rs, targetId) THEN afterForward(rs, t)
  ELSE LET endpoint == rs.registeredEndpoints[targetId]
           out == messageObj(t)
       IN IF wantsSec(endpoint.capabilities) /\ rs.security.enabled
            THEN IF OutgoingThrows(rs.security)
                   THEN afterForward(rs, Send(t, endpoint.ws, out))
                 ELSE IF OutgoingCrypto(rs.security)
                   THEN Suspend([rs EXCEPT !.security = KeysAfterOutgoing(@, out)],
                                t, "forwarding", endpoint.ws, prepareOutgoing(rs.security, out))
                   ELSE afterForward(rs, Send(t, endpoint.ws, prepareOutgoing(rs.security, out)))
            ELSE afterForward(rs, Send(t, endpoint.ws, out))


\* ---- the handlers called by _dispatch
onRegister(rs, t) ==
  LET m == t.msg
      entry == [ws |-> t.ws, criteria |-> CriteriaOf(m), capabilities |-> CapabilitiesOf(m)]
  IN ack([rs EXCEPT !.registeredEndpoints = FunSet(@, m.source_id, entry),
                    !.registry = register(@, m.source_id, CriteriaOf(m))], t)

IncludingSender(ids, sender) == ids
ExcludingSender(ids, sender) == SelectSeq(ids, LAMBDA id : id # sender)

onConnect(rs, t, r) ==
  LET m == t.msg
      matches == ExcludingSender(findMatches(rs.registry, CriteriaOf(m)), m.source_id)
      selected == selectEndpoint(rs.registry, matches, r)
      pendingEntry == [target |-> selected, offer |-> OfferOf(m), messageId |-> m.message_id]
  IN IF Len(matches) = 0
       THEN sendError(rs, t, m.message_id, TargetUnknown("No matching endpoint found"))
     ELSE IF ~MapHas(rs.endpoints, selected)
       THEN sendError(rs, t, m.message_id, TargetUnknown("Selected endpoint unavailable"))
     ELSE forwardTo([rs EXCEPT !.pendingConnections = FunSet(@, m.source_id, pendingEntry)],
                    t, selected)

onAccept(rs, t) ==
  LET m == t.msg
      session == [a |-> m.source_id, b |-> TargetOf(m), state |-> "active"]
  IN IF ~MapHas(rs.endpoints, TargetOf(m))
       THEN sendError(rs, t, m.message_id, TargetUnknown("Target endpoint not found"))
       ELSE forwardTo([rs EXCEPT !.activeSessions = Append(@, session)], t, TargetOf(m))

\* _onReject, _onUpdate and _onApplication have the same body
onRelayed(rs, t) ==
  LET m == t.msg
  IN IF ~MapHas(rs.endpoints, TargetOf(m))
       THEN sendError(rs, t, m.message_id, TargetUnknown("Target endpoint not found"))
       ELSE forwardTo(rs, t, TargetOf(m))

onClose(rs, t) ==
  IF MapHas(rs.endpoints, TargetOf(t.msg)) THEN forwardTo(rs, t, TargetOf(t.msg))
  ELSE afterForward(rs, t)

dispatch(rs, t, r) ==
  CASE t.msg.message_type = "register" -> onRegister(rs, t)
    [] t.msg.message_type = "connect" -> onConnect(rs, t, r)
    [] t.msg.message_type = "accept" -> onAccept(rs, t)
    [] t.msg.message_type \in {"reject", "update", "application"} -> onRelayed(rs, t)
    [] t.msg.message_type = "close" -> onClose(rs, t)
    [] OTHER -> Done(rs, t)

\* the 'message' listener after the security unpack: validate, record the
\* sender's transport, dispatch
afterUnpack(rs, t, r) ==
  IF ~validateMessageShape(t.msg)
    THEN sendError(rs, t, t.msg.message_id, MessageMalformatted("Message does not conform to schema"))
    ELSE LET rs1 == [rs EXCEPT !.endpoints = MapSet(@, t.msg.source_id, t.ws)]
         IN dispatch(rs1, [t EXCEPT !.seen = Tables(rs1)], r)

\* the 'message' listener from a parsed frame
onMessage(rs, ws, raw, r) ==
  LET t == NewTask(rs, ws, raw)
  IN IF raw.security.present /\ IncomingCrypto(rs.security, raw)
       THEN Suspend([rs EXCEPT !.security = KeysAfterIncoming(@, raw)], t, "unpacking", ws, raw)
       ELSE afterUnpack(rs, t, r)

\* the 'message' listener for a frame that is no JSON object: text that
\* JSON.parse rejects, the JSON value null, a JSON number.  For null the
\* listener throws at "message.message_id" after the validator said invalid.
NotJson == [json |-> "invalid"]
JsonNull == [json |-> "null"]
JsonNumber == [json |-> "number"]

onData(rs, ws, data) ==
  LET t == NewTask(rs, ws, data)
  IN IF data = NotJson
       THEN sendError(rs, t, 0, MessageMalformatted("Invalid JSON"))
     ELSE IF data = JsonNull
       THEN [rs |-> rs, task |-> [t EXCEPT !.stage = "thrown"]]
     ELSE sendError(rs, t, 0, MessageMalformatted("Message does not conform to schema"))

\* a suspended dispatch continues when its WebCrypto promise settles
resume(rs, t, r) ==
  CASE t.stage = "unpacking" ->
         IF IncomingThrows(rs.security, t.raw)
           THEN sendError(rs, t, t.raw.message_id, MessageMalformatted("Security unpack failed"))
           ELSE afterUnpack(rs, [t EXCEPT !.msg = unpackIncoming(rs.security, t.raw)], r)
    [] t.stage = "forwarding" -> afterForward(rs, Send(t, t.to, t.frame))
    [] t.stage = "acking" -> Done(rs, Send(t, t.to, t.frame))

\* the 'close' listener: every source_id routed to ws is dropped, its sessions closed
RECURSIVE closeSessionsFor(_, _, _, _)
closeSessionsFor(rs, writes, source, i) ==
  IF i > Len(rs.activeSessions) THEN [rs |-> rs, writes |-> writes]
  ELSE LET s == rs.activeSessions[i]
       IN IF s.a = source \/ s.b = source
            THEN LET other == IF s.a = source THEN s.b ELSE s.a
                     id == nextMessageId(rs.counter)
                     notify == MapHas(rs.endpoints, other)
                     rs1 == [rs EXCEPT
                               !.counter = IF notify THEN id ELSE @,
                               !.activeSessions = [j \in 1..(Len(@) - 1) |->
                                                     IF j < i THEN @[j] ELSE @[j + 1]]]
                     w1 == IF notify
                             THEN Append(writes, [ws |-> MapGet(rs.endpoints, other),
                                                  frame |-> CloseMessage(id, source, serverSource)])
                             ELSE writes
                 IN closeSessionsFor(rs1, w1, source, i)
            ELSE closeSessionsFor(rs, writes, source, i + 1)

RECURSIVE onSocketClose(_, _, _, _)
onSocketClose(rs, writes, ws, i) ==
  IF i > Len(rs.endpoints) THEN [rs |-> rs, writes |-> writes]
  ELSE LET src == rs.endpoints[i].k
       IN IF rs.endpoints[i].v = ws
            THEN LET rs1 == [rs EXCEPT !.endpoints = MapDelete(@, src),
                                       !.registry = unregister(@, src),
                                       !.registeredEndpoints = FunDelete(@, src)]
                     res == closeSessionsFor(rs1, writes, src, 1)
                 IN onSocketClose(res.rs, res.writes, ws, i)
            ELSE onSocketClose(rs, writes, ws, i + 1)

\* ------------------------------------------------------------------ inputs
RegisterCriteria == {<<ServiceVideo>>, <<ServiceVideo, QosHigh>>}
ConnectCriteria == {<<ServiceVideo>>, <<ServiceVideo, QosHigh>>, <<ServiceGhost>>}
Randoms == 0..(RandomSteps - 1)

\* The clients of a run: the source_id each sends under, the websocket it is
\* connected on, the message_id its counter has reached, and whether its
\* SwapClient has security enabled (SwapClient.js: register() then advertises
\* the capability and _sendAndWait() wraps every frame).  EndpointA appears on
\* both websockets.
Clients ==
  {[source_id |-> EndpointA, ws |-> 1, message_id |-> 1, secure |-> FALSE],
   [source_id |-> EndpointA, ws |-> 2, message_id |-> 1, secure |-> FALSE],
   [source_id |-> EndpointB1, ws |-> 2, message_id |-> 2, secure |-> FALSE],
   [source_id |-> EndpointB2, ws |-> 1, message_id |-> 3, secure |-> TRUE]}

ClientSecurity(sourceId) ==
  SecurityInit(SecurityManager(TRUE, TRUE, TRUE, SharedSecret), sourceId)

ClientFrame(c, type, body) ==
  LET m == Message(c.source_id, c.message_id, type, body)
  IN [ws |-> c.ws,
      raw |-> IF c.secure THEN prepareOutgoing(ClientSecurity(c.source_id), m) ELSE m]

RegisterBody(c, criteria) ==
  IF c.secure THEN [criteria |-> criteria, capabilities |-> SecureCapabilities]
  ELSE [criteria |-> criteria]

RegisterFrames ==
  {ClientFrame(c, "register", RegisterBody(c, cr)) : c \in Clients, cr \in RegisterCriteria}
ConnectFrames ==
  {ClientFrame(c, "connect", [offer |-> "v=0..o", criteria |-> cr]) :
     c \in Clients, cr \in ConnectCriteria}
AcceptFrames ==
  {ClientFrame(c, "accept", [target |-> x, answer |-> "v=0..a"]) : c \in Clients, x \in Sources}
RejectFrames ==
  {ClientFrame(c, "reject", [target |-> x, reason |-> "busy"]) : c \in Clients, x \in Sources}
UpdateFrames ==
  {ClientFrame(c, "update", [target |-> x, sdp |-> "v=0..u"]) : c \in Clients, x \in Sources}
CloseFrames ==
  {ClientFrame(c, "close", [target |-> x]) : c \in Clients, x \in Sources}
ApplicationFrames ==
  {ClientFrame(c, "application", [target |-> x, type |-> "chat", value |-> "hi"]) :
     c \in Clients, x \in Sources}
ResponseFrames ==
  {ClientFrame(c, "response", [response_to |-> 1, status |-> 200, reason |-> "OK"]) :
     c \in Clients}

\* frames that parse as JSON objects but fail the schema
MalformedFrames ==
  {[ws |-> 1, raw |-> Message(EndpointA, 1, "connect", [criteria |-> <<ServiceVideo>>])],
   [ws |-> 2, raw |-> Message("short", 2, "register", [criteria |-> <<ServiceVideo>>])],
   [ws |-> 2, raw |-> Message(EndpointB1, 2, "hello", NoPayload)]}

\* frames that are no JSON object
DataFrames == {[ws |-> ws, raw |-> d] : ws \in Transports, d \in {NotJson, JsonNull, JsonNumber}}

SecurityConfigs ==
  {SecurityManager(FALSE, TRUE, FALSE, Null),
   SecurityManager(TRUE, TRUE, FALSE, SharedSecret),
   SecurityManager(TRUE, TRUE, TRUE, SharedSecret)}

\* ---------------------------------------------------------- StateMachine.js
States == {"idle", "connecting", "connected", "closing"}

Transitions ==
  [idle |-> [connect |-> "connecting", accept_incoming |-> "connecting"],
   connecting |-> [accept |-> "connected", reject |-> "idle"],
   connected |-> [update |-> "connected", close |-> "closing"],
   closing |-> [closed |-> "idle"]]

\* Transitions and its rows are object literals: a key the literal does not
\* define is looked up on Object.prototype, where these names are functions
ObjectPrototypeKeys == {"constructor", "toString"}

\* obj[key]
Lookup(obj, key) ==
  IF key \in DOMAIN obj THEN obj[key]
  ELSE IF key \in ObjectPrototypeKeys THEN "Object.prototype." \o key
  ELSE Undefined

canSend(state, messageType) ==
  CASE state = "idle" -> messageType \in {"register", "connect"}
    [] state = "connecting" ->
         messageType \in {"accept", "reject", "update", "close", "application", "response"}
    [] state = "connected" -> messageType \in {"update", "close", "application", "response"}
    [] state = "closing" -> messageType \in {"response"}
    [] OTHER -> TRUE

\* apply(event): "Transitions[this.state] || {}", then "if (next) this.state = next"
apply(state, event) ==
  LET map == IF state \in DOMAIN Transitions THEN Transitions[state] ELSE <<>>
      next == Lookup(map, event)
  IN IF next # Undefined THEN next ELSE state

\* ------------------------------------------------------------ MessageQueue.js
\* flush(sendFn): sendFn throws at the failAt-th message taken from the queue
\* (never, when failAt is 0 or beyond the queue); sent are the messages sendFn
\* took.  The message that failed is put back at the head.
putBackAtTail(rest, msg) == Append(rest, msg)
putBack(rest, msg) == <<msg>> \o rest

flush(queue, failAt) ==
  IF failAt \in 1..Len(queue)
    THEN [sent |-> SubSeq(queue, 1, failAt - 1),
          queue |-> putBack(SubSeq(queue, failAt + 1, Len(queue)), queue[failAt]),
          thrown |-> TRUE]
    ELSE [sent |-> queue, queue |-> <<>>, thrown |-> FALSE]

\* ------------------------------------------------------ ReconnectionManager.js
NoTimer == [armed |-> FALSE]
Timer(delay) == [armed |-> TRUE, delay |-> delay]

RECURSIVE Pow(_, _)
Pow(b, n) == IF n = 0 THEN 1 ELSE b * Pow(b, n - 1)
Min(a, b) == IF a <= b THEN a ELSE b

\* new ReconnectionManager(options).  timer is this._timer, the handle of the
\* timeout set last unless a timeout has fired since; live are the delays of
\* the timeouts that were set and have neither fired nor been cleared, in
\* the order they were set.
ReconnectionManagerWith(enabled, maxAttempts, initialDelay, maxDelay, backoffMultiplier) ==
  [enabled |-> enabled, maxAttempts |-> maxAttempts, initialDelay |-> initialDelay,
   maxDelay |-> maxDelay, backoffMultiplier |-> backoffMultiplier, attempts |-> 0,
   timer |-> NoTimer, live |-> <<>>]

\* the default delays
ReconnectionManager(enabled, maxAttempts) ==
  ReconnectionManagerWith(enabled, maxAttempts, 1000, 30000, 2)

ButLast(s) == SubSeq(s, 1, Len(s) - 1)

\* clearTimeout(this._timer): the handle is that of the timeout set last
clearTimer(rc) == IF rc.timer.armed THEN ButLast(rc.live) ELSE rc.live

reset(rc) == [rc EXCEPT !.attempts = 0, !.timer = NoTimer, !.live = clearTimer(rc)]

\* the i-th live timeout fires: "this._timer = null; task()"
fire(rc, i) ==
  [rc EXCEPT !.timer = NoTimer,
             !.live = [j \in 1..(Len(@) - 1) |-> IF j < i THEN @[j] ELSE @[j + 1]]]

\* scheduleReconnect(task): what it returns, and the manager afterwards
scheduleReturns(rc) == rc.enabled /\ rc.attempts < rc.maxAttempts
scheduleReconnect(rc) ==
  IF ~scheduleReturns(rc) THEN rc
  ELSE LET delay == Min(rc.initialDelay * Pow(rc.backoffMultiplier, rc.attempts),
                        rc.maxDelay)
       IN [rc EXCEPT !.attempts = @ + 1, !.timer = Timer(delay), !.live = Append(@, delay)]

\* -------------------------------------------------------- WebSocketTransport.js
\* ws is "null" (this.ws === null) or the readyState of the socket:
\* "connecting" (0), "open" (1), "closed" (3).  listening says whether onClose
\* is still attached to the socket: onOpen ends with cleanup(), which detaches it.
\* The socket is a standard WebSocket (globalThis.WebSocket), on which every
\* handler is attached once.
Transport(reconnect) ==
  [ws |-> "null", listening |-> FALSE,
   queue |-> <<>>,            \* this.queue._queue
   wire |-> <<>>,             \* the frames ws.send has taken, in order
   sends |-> 0,               \* calls of send() so far
   manuallyClosed |-> FALSE,  \* this._manuallyClosed
   ctor |-> FALSE,            \* connect() is waiting for _getWebSocketCtor()
   reconnecting |-> FALSE,    \* that connect() was called by the reconnect task
   reconnect |-> reconnect]   \* this.reconnect

\* new WebSocketTransport({ reconnect: { enabled: false } })
NewTransport == Transport(ReconnectionManager(FALSE, MaxAttempts))

\* send(message); throws says whether ws.send throws
transportSend(tr, payload, throws) ==
  LET tr1 == [tr EXCEPT !.sends = @ + 1]
  IN IF tr.ws # "open" THEN [tr1 EXCEPT !.queue = Append(@, payload)]
     ELSE IF throws THEN tr1
     ELSE [tr1 EXCEPT !.wire = Append(@, payload)]

\* connect() up to "await this._getWebSocketCtor()", and from there on: a new
\* socket with the handlers attached
connectBegin(tr) == [tr EXCEPT !.manuallyClosed = FALSE, !.ctor = TRUE, !.reconnecting = FALSE]
connectSocket(tr) ==
  [tr EXCEPT !.ctor = FALSE, !.reconnecting = FALSE, !.ws = "connecting", !.listening = TRUE]

\* connect() when nothing else runs while it waits
transportConnect(tr) == connectSocket(connectBegin(tr))

\* onOpen
onOpen(tr, failAt) ==
  LET res == flush(tr.queue, failAt)
  IN [tr EXCEPT !.ws = "open", !.listening = FALSE, !.queue = res.queue,
                !.wire = @ \o res.sent, !.reconnect = reset(@)]

\* the socket closes: onClose runs only while it is attached
onTransportClose(tr) ==
  IF tr.listening
    THEN [tr EXCEPT !.ws = "null", !.listening = FALSE,
                    !.reconnect = IF tr.manuallyClosed THEN @ ELSE scheduleReconnect(@)]
    ELSE [tr EXCEPT !.ws = "closed"]

\* close(code, reason): the socket is closed and dropped; an onClose still
\* attached to it finds _manuallyClosed set and schedules nothing
closeTransport(tr) ==
  [tr EXCEPT !.manuallyClosed = TRUE, !.ws = "null", !.listening = FALSE]

\* the task _scheduleReconnect gave the timer
onReconnectTimer(tr) ==
  LET tr1 == [tr EXCEPT !.reconnect = fire(@, 1)]
  IN IF tr.manuallyClosed THEN tr1 ELSE [connectBegin(tr1) EXCEPT !.reconnecting = TRUE]

\* --------------------------------------------------------------- SwapClient.js
\* options.identity: absent, or a fixed source_id
NoIdentity == [present |-> FALSE]
FixedIdentity == [present |-> TRUE, source_id |-> EndpointA]
Peer == EndpointB1

\* generateSourceId('ep') for the n-th message built without an identity
GeneratedIds == <<"ep-5f0c2a1e", "ep-93b7d410", "ep-c81e66fa">>

NewClient(identity) ==
  [identity |-> identity,   \* options.identity
   counter |-> 0,           \* SwapMessage._counters[identity.source_id].value
   built |-> 0,             \* messages built so far
   state |-> "idle",        \* stateMachine.state
   sessions |-> {},         \* sessions.sessions, keyed by the sorted pair
   pending |-> <<>>,        \* pending: message_id -> the call whose resolve/reject/timer it holds
   calls |-> <<>>,          \* the promises returned by _sendAndWait, in call order
   security |-> SecurityManager(FALSE, TRUE, FALSE, Null),   \* new SecurityManager({})
   sending |-> {},          \* _sendAndWait runs waiting in prepareOutgoing
   unpacking |-> {}]        \* 'message' listener runs waiting in unpackIncoming

\* a client with options.security set, after connect(): the keys are derived
\* under options.identity.source_id, or under 'swap' when there is none
ClientSecurityConfig == SecurityManager(TRUE, TRUE, TRUE, SharedSecret)
SecureClient(identity) ==
  [NewClient(identity) EXCEPT
     !.security = SecurityInit(ClientSecurityConfig,
                               IF identity.present THEN identity.source_id ELSE "swap")]

MethodType(method) ==
  CASE method = "connectOffer" -> "connect"
    [] method = "sendApp" -> "application"
    [] OTHER -> method

\* new SwapMessage(type, this._init()): source_id and message_id
newMessageId(c) == IF c.identity.present THEN nextMessageId(c.counter) ELSE nextMessageId(0)
newSourceId(c) == IF c.identity.present THEN c.identity.source_id ELSE GeneratedIds[c.built + 1]

\* _sendAndWait(msg) with security disabled: arm the timer, store the pending
\* entry, hand the frame to the transport
sendAndWait(c, tr, method) ==
  LET mid == newMessageId(c)
      frame == [source_id |-> newSourceId(c), message_id |-> mid,
                message_type |-> MethodType(method)]
      call == [method |-> method, source_id |-> frame.source_id, message_id |-> mid,
               timer |-> "armed", outcome |-> "pending", status |-> 0, problem |-> Null]
      k == Len(c.calls) + 1
  IN [client |-> [c EXCEPT !.counter = IF c.identity.present THEN mid ELSE @,
                           !.built = @ + 1,
                           !.calls = Append(@, call),
                           !.pending = FunSet(@, mid, k)],
      transport |-> transportSend(tr, frame, FALSE)]

\* register, connectOffer, accept, reject, update, close, sendApp
clientCall(c, tr, method) ==
  IF method = "connectOffer"
    THEN IF ~canSend(c.state, "connect") THEN [client |-> c, transport |-> tr]
         ELSE LET res == sendAndWait(c, tr, method)
              IN [res EXCEPT !.client.state = apply(c.state, "connect")]
    ELSE sendAndWait(c, tr, method)

\* the timer of call k fires
onTimeout(c, k) ==
  [c EXCEPT !.pending = FunDelete(@, c.calls[k].message_id),
            !.calls[k] = [@ EXCEPT !.timer = "fired",
                                   !.outcome = IF @ = "pending" THEN "rejected" ELSE @,
                                   !.problem = IF c.calls[k].outcome = "pending"
                                                 THEN "Response timeout" ELSE @]]

\* "msg.status && msg.status >= 200 && msg.status < 300"
IsExactly200(status) == status = 200
IsSuccess(status) == status # 0 /\ status >= 200 /\ status < 300

\* _handleResponse(msg)
handleResponse(c, msg) ==
  IF msg.response_to \notin DOMAIN c.pending THEN c
  ELSE LET k == c.pending[msg.response_to]
           settle(call) ==
             IF call.outcome # "pending" THEN call
             ELSE IF IsSuccess(msg.status)
               THEN [call EXCEPT !.outcome = "resolved", !.status = msg.status]
               ELSE [call EXCEPT !.outcome = "rejected", !.status = msg.status,
                                 !.problem = msg.error]
       IN [c EXCEPT !.pending = FunDelete(@, msg.response_to),
                    !.calls[k] = settle([@ EXCEPT !.timer = "cleared"])]

sessionKey(a, b) == {a, b}

\* the transport's 'message' listener, security disabled
onClientMessage(c, msg) ==
  CASE msg.message_type = "response" -> handleResponse(c, msg)
    [] msg.message_type = "connect" -> [c EXCEPT !.state = apply(@, "accept_incoming")]
    [] msg.message_type = "accept" ->
         [c EXCEPT !.state = apply(@, "accept"),
                   !.sessions = @ \cup {sessionKey(msg.source_id, msg.target)}]
    [] msg.message_type = "reject" -> [c EXCEPT !.state = apply(@, "reject")]
    [] msg.message_type = "close" ->
         [c EXCEPT !.state = apply(@, "close"),
                   !.sessions = @ \ {sessionKey(msg.source_id, msg.target)}]
    [] OTHER -> c

\* ---- SwapClient with security enabled: _sendAndWait and the 'message'
\* listener wait for WebCrypto, and other callbacks run meanwhile
MethodBody(c, method) ==
  CASE method = "register" ->
         IF c.security.enabled
           THEN [criteria |-> <<ServiceVideo>>,
                 capabilities |-> [security |-> [integrity |-> c.security.integrity,
                                                 encryption |-> c.security.encryption]]]
           ELSE [criteria |-> <<ServiceVideo>>]
    [] method = "connectOffer" -> [offer |-> "v=0..o", criteria |-> <<ServiceVideo>>]
    [] method = "accept" -> [target |-> Peer, answer |-> "v=0..a"]
    [] method = "reject" -> [target |-> Peer, reason |-> "busy"]
    [] method = "update" -> [target |-> Peer, sdp |-> "v=0..u"]
    [] method = "close" -> [target |-> Peer]
    [] method = "sendApp" -> [target |-> Peer, type |-> "chat", value |-> "hi"]

\* a method up to "await this.security.prepareOutgoing(raw)" in _sendAndWait
secureCall(c, method) ==
  IF method = "connectOffer" /\ ~canSend(c.state, "connect") THEN c
  ELSE LET mid == newMessageId(c)
           raw == Message(newSourceId(c), mid, MethodType(method), MethodBody(c, method))
           call == [method |-> method, source_id |-> raw.source_id, message_id |-> mid,
                    timer |-> "none", outcome |-> "pending", status |-> 0, problem |-> Null]
           k == Len(c.calls) + 1
       IN [c EXCEPT !.counter = IF c.identity.present THEN mid ELSE @,
                    !.built = @ + 1,
                    !.calls = Append(@, call),
                    !.state = IF method = "connectOffer" THEN apply(@, "connect") ELSE @,
                    !.sending = @ \cup {[k |-> k, raw |-> raw]}]

\* _sendAndWait from there on: arm the timer, store the entry, send
sendResumes(c, tr, s) ==
  LET payloadObj == IF OutgoingThrows(c.security) THEN s.raw
                    ELSE prepareOutgoing(c.security, s.raw)
  IN [client |-> [c EXCEPT !.security = KeysAfterOutgoing(@, s.raw),
                           !.sending = @ \ {s},
                           !.calls[s.k].timer = "armed",
                           !.pending = FunSet(@, s.raw.message_id, s.k)],
      transport |-> transportSend(tr, payloadObj, FALSE)]

\* MessageFactory.fromObject as the listener uses its result
fromObject(obj) ==
  IF obj.message_type = "response"
    THEN [message_type |-> "response", source_id |-> obj.source_id,
          response_to |-> IF HasField(obj, "response_to") THEN obj.body.response_to ELSE 0,
          status |-> IF HasField(obj, "status") THEN obj.body.status ELSE 0,
          error |-> IF HasField(obj, "error") THEN obj.body.error.type ELSE Null]
    ELSE [message_type |-> obj.message_type, source_id |-> obj.source_id,
          target |-> TargetOf(obj)]

\* the events the listener emits for obj
emitted(obj) ==
  IF obj.message_type \in {"connect", "accept", "reject", "update", "close", "application"}
    THEN <<[event |-> obj.message_type, from |-> obj.source_id, body |-> obj.body]>>
    ELSE <<>>

\* the 'message' listener once unpackIncoming has settled: a failure is
\* logged and the object is processed as it arrived
unpackResumes(c, frame) ==
  LET threw == IncomingThrows(c.security, frame)
      obj == IF threw THEN frame ELSE unpackIncoming(c.security, frame)
      c1 == [c EXCEPT !.security = KeysAfterIncoming(@, frame), !.unpacking = @ \ {frame}]
  IN [client |-> IF obj.message_type = "response" /\ ~HasField(obj, "response_to")
                   THEN c1 ELSE onClientMessage(c1, fromObject(obj)),
      threw |-> threw, emitted |-> emitted(obj)]

\* ----------------------------------------------------------------- actions
NoEvent == [kind |-> "none"]
Completed(t) ==
  [kind |-> "message", ws |-> t.ws, raw |-> t.raw, msg |-> t.msg, seen |-> t.seen,
   writes |-> t.writes]

Busy == {i \in 1..MaxTasks : tasks[i].stage # "idle"}
FirstFree(i) == tasks[i].stage = "idle" /\ \A j \in 1..(i - 1) : tasks[j].stage # "idle"

SetRelay(rs) ==
  /\ endpoints' = rs.endpoints
  /\ registeredEndpoints' = rs.registeredEndpoints
  /\ registry' = rs.registry
  /\ activeSessions' = rs.activeSessions
  /\ pendingConnections' = rs.pendingConnections
  /\ security' = rs.security
  /\ counter' = rs.counter

\* wss 'connection': _onConnection attaches the listeners
Connection(ws) ==
  /\ last = NoEvent
  /\ wsState[ws] = "idle"
  /\ wsState' = [wsState EXCEPT ![ws] = "open"]
  /\ last' = NoEvent
  /\ UNCHANGED <<endpoints, registeredEndpoints, registry, activeSessions,
                 pendingConnections, security, counter, received, tasks, probe, client, transport>>

\* ws 'message', in a run of at most budget frames
ReceiveWithin(ws, raw, r, budget) ==
  /\ last = NoEvent
  /\ wsState[ws] = "open"
  /\ received < budget
  /\ received' = received + 1
  /\ \E res \in {onMessage(Relay, ws, raw, r)} :
        /\ SetRelay(res.rs)
        /\ IF res.task.stage = "done"
             THEN tasks' = tasks /\ last' = Completed(res.task)
             ELSE /\ \E i \in 1..MaxTasks : FirstFree(i) /\ tasks' = [tasks EXCEPT ![i] = res.task]
                  /\ last' = NoEvent
  /\ UNCHANGED <<wsState, probe, client, transport>>

Receive(ws, raw, r) == ReceiveWithin(ws, raw, r, MaxReceived)

\* one action per kind of frame
Register(ws, raw) == raw.message_type = "register" /\ Receive(ws, raw, 0)
Connect(ws, raw, r) == raw.message_type = "connect" /\ Receive(ws, raw, r)
Accept(ws, raw) == raw.message_type = "accept" /\ Receive(ws, raw, 0)
Reject(ws, raw) == raw.message_type = "reject" /\ Receive(ws, raw, 0)
Update(ws, raw) == raw.message_type = "update" /\ Receive(ws, raw, 0)
Close(ws, raw) == raw.message_type = "close" /\ Receive(ws, raw, 0)
Application(ws, raw) == raw.message_type = "application" /\ Receive(ws, raw, 0)
Response(ws, raw) == raw.message_type = "response" /\ Receive(ws, raw, 0)
Malformed(ws, raw) == ~validateMessageShape(raw) /\ Receive(ws, raw, 0)

\* ws 'message' with a frame that is no JSON object.  The listener is an
\* async function nobody awaits: when it throws, the rejection is unhandled,
\* and Node either ends the process (the default since Node 15) or only warns.
Data(ws, data) ==
  /\ last = NoEvent
  /\ wsState[ws] = "open"
  /\ received < MaxReceived
  /\ received' = received + 1
  /\ \E res \in {onData(Relay, ws, data)} :
        /\ SetRelay(res.rs)
        /\ IF res.task.stage = "thrown"
             THEN /\ last' = [kind |-> "rejection", ws |-> ws, raw |-> data, writes |-> <<>>]
                  /\ \E exits \in BOOLEAN :
                        IF exits
                          THEN /\ wsState' = [w \in Transports |-> "down"]
                               /\ tasks' = [i \in 1..MaxTasks |-> IdleTask]
                          ELSE UNCHANGED <<wsState, tasks>>
             ELSE /\ last' = [kind |-> "data", ws |-> ws, raw |-> data,
                              writes |-> res.task.writes]
                  /\ UNCHANGED <<wsState, tasks>>
  /\ UNCHANGED <<probe, client, transport>>

\* a WebCrypto promise settles and the suspended dispatch runs on
Resume(i, r) ==
  /\ last = NoEvent
  /\ tasks[i].stage # "idle"
  /\ \E res \in {resume(Relay, tasks[i], r)} :
        /\ SetRelay(res.rs)
        /\ IF res.task.stage = "done"
             THEN tasks' = [tasks EXCEPT ![i] = IdleTask] /\ last' = Completed(res.task)
             ELSE tasks' = [tasks EXCEPT ![i] = res.task] /\ last' = NoEvent
  /\ UNCHANGED <<wsState, received, probe, client, transport>>

\* ws 'close'
SocketClose(ws) ==
  /\ last = NoEvent
  /\ wsState[ws] = "open"
  /\ wsState' = [wsState EXCEPT ![ws] = "closed"]
  /\ \E res \in {onSocketClose(Relay, <<>>, ws, 1)} :
        /\ SetRelay(res.rs)
        /\ last' = [kind |-> "close", ws |-> ws, writes |-> res.writes]
  /\ UNCHANGED <<received, tasks, probe, client, transport>>

\* the frames written by the completed handler run leave the relay
Drain ==
  /\ last # NoEvent
  /\ last' = NoEvent
  /\ UNCHANGED <<wsState, endpoints, registeredEndpoints, registry, activeSessions,
                 pendingConnections, security, counter, received, tasks, probe, client, transport>>

InitRelay ==
  /\ wsState = [ws \in Transports |-> "idle"]
  /\ endpoints = <<>>
  /\ registeredEndpoints = <<>>
  /\ registry = <<>>
  /\ activeSessions = <<>>
  /\ pendingConnections = <<>>
  /\ security \in SecurityConfigs
  /\ counter = 0
  /\ received = 0
  /\ tasks = [i \in 1..MaxTasks |-> IdleTask]
  /\ last = NoEvent
  /\ probe = [op |-> "none"]

Init == InitRelay /\ client = NewClient(NoIdentity) /\ transport = NewTransport

Next ==
  \/ \E ws \in Transports : Connection(ws)
  \/ \E f \in RegisterFrames : Register(f.ws, f.raw)
  \/ \E f \in ConnectFrames, r \in Randoms : Connect(f.ws, f.raw, r)
  \/ \E f \in AcceptFrames : Accept(f.ws, f.raw)
  \/ \E f \in RejectFrames : Reject(f.ws, f.raw)
  \/ \E f \in UpdateFrames : Update(f.ws, f.raw)
  \/ \E f \in CloseFrames : Close(f.ws, f.raw)
  \/ \E f \in ApplicationFrames : Application(f.ws, f.raw)
  \/ \E f \in ResponseFrames : Response(f.ws, f.raw)
  \/ \E f \in MalformedFrames : Malformed(f.ws, f.raw)
  \/ \E f \in DataFrames : Data(f.ws, f.raw)
  \/ \E i \in 1..MaxTasks, r \in Randoms : Resume(i, r)
  \/ \E ws \in Transports : SocketClose(ws)
  \/ Drain

Spec == Init /\ [][Next]_vars

\* ---- a relay with security enabled and two clients on one websocket; a
\* WebCrypto promise always settles and written frames always leave
Requestor == CHOOSE c \in Clients : c.source_id = EndpointA /\ c.ws = 1
Responder == CHOOSE c \in Clients : c.source_id = EndpointB2
FairRegisterFrames ==
  {ClientFrame(Responder, "register", RegisterBody(Responder, <<ServiceVideo, QosHigh>>)),
   ClientFrame(Requestor, "register", RegisterBody(Requestor, <<ServiceVideo>>))}
FairConnectFrames ==
  {ClientFrame(Requestor, "connect", [offer |-> "v=0..o", criteria |-> <<ServiceVideo>>])}
FairAcceptFrames ==
  {ClientFrame(Responder, "accept", [target |-> EndpointA, answer |-> "v=0..a"])}
FairUpdateFrames ==
  {ClientFrame(Requestor, "update", [target |-> EndpointB2, sdp |-> "v=0..u"])}
FairCloseFrames == {ClientFrame(Responder, "close", [target |-> EndpointA])}
FairMalformedFrames == {f \in MalformedFrames : f.ws = 1}

InitFair == Init /\ security.enabled

NextFair ==
  \/ \E ws \in Transports : Connection(ws)
  \/ \E f \in FairRegisterFrames : Register(f.ws, f.raw)
  \/ \E f \in FairConnectFrames, r \in Randoms : Connect(f.ws, f.raw, r)
  \/ \E f \in FairAcceptFrames : Accept(f.ws, f.raw)
  \/ \E f \in FairUpdateFrames : Update(f.ws, f.raw)
  \/ \E f \in FairCloseFrames : Close(f.ws, f.raw)
  \/ \E f \in FairMalformedFrames : Malformed(f.ws, f.raw)
  \/ \E i \in 1..MaxTasks, r \in Randoms : Resume(i, r)
  \/ \E ws \in Transports : SocketClose(ws)
  \/ Drain

SpecFair ==
  /\ InitFair
  /\ [][NextFair]_vars
  /\ WF_vars(Drain)
  /\ \A i \in 1..MaxTasks : WF_vars(\E r \in Randoms : Resume(i, r))

\* ------------------------------------------- the matching engine on its own
CriteriaUniverse == {ServiceVideo, QosHigh, ServiceGhost}
CriteriaLists == UNION {[1..n -> CriteriaUniverse] : n \in 0..MaxCriteria}
MatchLists ==
  {ms \in UNION {[1..n -> Sources] : n \in 0..Cardinality(Sources)} :
     \A i, j \in 1..Len(ms) : i # j => ms[i] # ms[j]}

MatchRegister(id, criteria) ==
  /\ probe.op = "none"
  /\ registry' = register(registry, id, criteria)
  /\ UNCHANGED <<relayVars, probe>>

MatchUnregister(id) ==
  /\ probe.op = "none"
  /\ MapHas(registry, id)
  /\ registry' = unregister(registry, id)
  /\ UNCHANGED <<relayVars, probe>>

MatchFind(query) ==
  /\ probe.op = "none"
  /\ probe' = [op |-> "findMatches", query |-> query, result |-> findMatches(registry, query)]
  /\ UNCHANGED <<relayVars, registry>>

MatchSelect(matches, r) ==
  /\ probe.op = "none"
  /\ probe' = [op |-> "selectEndpoint", matches |-> matches, r |-> r,
               result |-> selectEndpoint(registry, matches, r)]
  /\ UNCHANGED <<relayVars, registry>>

MatchReturn ==
  /\ probe.op # "none"
  /\ probe' = [op |-> "none"]
  /\ UNCHANGED <<relayVars, registry>>

NextMatch ==
  \/ \E id \in Sources, criteria \in CriteriaLists : MatchRegister(id, criteria)
  \/ \E id \in Sources : MatchUnregister(id)
  \/ \E query \in CriteriaLists : MatchFind(query)
  \/ \E matches \in MatchLists, r \in Randoms : MatchSelect(matches, r)
  \/ MatchReturn

InitMatch == Init /\ ~security.enabled

SpecMatch == InitMatch /\ [][NextMatch]_vars

\* ---- two endpoints on one websocket that register, accept and close each
\* other's sessions, over a longer run of frames
SessionPeers == {Requestor, Responder}
SessionAcceptFrames ==
  {ClientFrame(c, "accept", [target |-> x.source_id, answer |-> "v=0..a"]) :
     c \in SessionPeers, x \in SessionPeers}
SessionCloseFrames ==
  {ClientFrame(c, "close", [target |-> x.source_id]) : c \in SessionPeers, x \in SessionPeers}

SessionRegister(ws, raw) ==
  raw.message_type = "register" /\ ReceiveWithin(ws, raw, 0, MaxSessionFrames)
SessionAccept(ws, raw) ==
  raw.message_type = "accept" /\ ReceiveWithin(ws, raw, 0, MaxSessionFrames)
SessionClose(ws, raw) ==
  raw.message_type = "close" /\ ReceiveWithin(ws, raw, 0, MaxSessionFrames)

NextSession ==
  \/ \E ws \in Transports : Connection(ws)
  \/ \E f \in FairRegisterFrames : SessionRegister(f.ws, f.raw)
  \/ \E f \in SessionAcceptFrames : SessionAccept(f.ws, f.raw)
  \/ \E f \in SessionCloseFrames : SessionClose(f.ws, f.raw)
  \/ \E i \in 1..MaxTasks, r \in Randoms : Resume(i, r)
  \/ \E ws \in Transports : SocketClose(ws)
  \/ Drain

SpecSession == Init /\ [][NextSession]_vars

\* ---- a relay and two clients that all have integrity and encryption enabled
\* with the same shared secret; each client has a fixed identity and has
\* called connect(), which derives its keys under its own source_id
SecureRequestor == [source_id |-> EndpointA, ws |-> 1, message_id |-> 1, secure |-> TRUE]
SecureResponder == [source_id |-> EndpointB2, ws |-> 2, message_id |-> 3, secure |-> TRUE]
SecureClients == {SecureRequestor, SecureResponder}

SecureRegisterFrames ==
  {ClientFrame(c, "register", RegisterBody(c, <<ServiceVideo>>)) : c \in SecureClients}
SecureConnectFrames ==
  {ClientFrame(SecureRequestor, "connect", [offer |-> "v=0..o", criteria |-> <<ServiceVideo>>])}
SecureAcceptFrames ==
  {ClientFrame(SecureResponder, "accept", [target |-> EndpointA, answer |-> "v=0..a"])}

SecureRegister(ws, raw) ==
  raw.message_type = "register" /\ ReceiveWithin(ws, raw, 0, MaxSessionFrames)
SecureConnect(ws, raw, r) ==
  raw.message_type = "connect" /\ ReceiveWithin(ws, raw, r, MaxSessionFrames)
SecureAccept(ws, raw) ==
  raw.message_type = "accept" /\ ReceiveWithin(ws, raw, 0, MaxSessionFrames)

InitSecure == Init /\ security = SecurityManager(TRUE, TRUE, TRUE, SharedSecret)

NextSecure ==
  \/ \E ws \in Transports : Connection(ws)
  \/ \E f \in SecureRegisterFrames : SecureRegister(f.ws, f.raw)
  \/ \E f \in SecureConnectFrames, r \in Randoms : SecureConnect(f.ws, f.raw, r)
  \/ \E f \in SecureAcceptFrames : SecureAccept(f.ws, f.raw)
  \/ \E i \in 1..MaxTasks, r \in Randoms : Resume(i, r)
  \/ \E ws \in Transports : SocketClose(ws)
  \/ Drain

SpecSecure == InitSecure /\ [][NextSecure]_vars

\* ---- a relay that is sent frames whose security block is there but carries
\* no ciphertext, and that lack the payload fields of their kind
EmptyBlock == [present |-> TRUE]                          \* "security": {}
NamesOnlyBlock == [present |-> TRUE, enc |-> "none", mac |-> "none"]

BareSenders == {c \in Clients : c.source_id \in {EndpointA, EndpointB1}}

BareFrames ==
  {[ws |-> c.ws,
    raw |-> [Message(c.source_id, c.message_id, type, NoPayload) EXCEPT !.security = block]] :
     c \in BareSenders,
     type \in {"connect", "accept", "reject", "update", "close", "application"},
     block \in {EmptyBlock, NamesOnlyBlock}}

\* the same kinds from a client that encrypts: the payload is in the ciphertext
SealedFrames ==
  {ClientFrame(c, "connect", [offer |-> "v=0..o", criteria |-> <<ServiceVideo>>]) :
     c \in {d \in Clients : d.secure}}

\* frames whose security block is not what a signing client made: a complete
\* connect with "security": {}, a signed and encrypted connect with its
\* signature taken off, and one with its message_id changed after signing
Unsigned(frame) == [frame EXCEPT !.security = WithoutField(@, "signature")]
Tampered(frame) == [frame EXCEPT !.message_id = @ + 1]
ForgedFrames ==
  {[ws |-> c.ws,
    raw |-> [Message(c.source_id, c.message_id, "connect",
                     [offer |-> "v=0..o", criteria |-> <<ServiceVideo>>])
               EXCEPT !.security = EmptyBlock]] : c \in BareSenders}
    \cup {[ws |-> f.ws, raw |-> Unsigned(f.raw)] : f \in SealedFrames}
    \cup {[ws |-> f.ws, raw |-> Tampered(f.raw)] : f \in SealedFrames}

BareRegister(ws, raw) ==
  raw.message_type = "register" /\ ReceiveWithin(ws, raw, 0, MaxReceived)
Bare(ws, raw, r) ==
  "ciphertext" \notin DOMAIN raw.security /\ ReceiveWithin(ws, raw, r, MaxReceived)
Sealed(ws, raw, r) ==
  "ciphertext" \in DOMAIN raw.security /\ ReceiveWithin(ws, raw, r, MaxReceived)
Forged(ws, raw, r) ==
  raw.security.present /\ ReceiveWithin(ws, raw, r, MaxReceived)

NextBare ==
  \/ \E ws \in Transports : Connection(ws)
  \/ \E f \in RegisterFrames : BareRegister(f.ws, f.raw)
  \/ \E f \in BareFrames, r \in Randoms : Bare(f.ws, f.raw, r)
  \/ \E f \in SealedFrames, r \in Randoms : Sealed(f.ws, f.raw, r)
  \/ \E f \in ForgedFrames, r \in Randoms : Forged(f.ws, f.raw, r)
  \/ \E i \in 1..MaxTasks, r \in Randoms : Resume(i, r)
  \/ \E ws \in Transports : SocketClose(ws)
  \/ Drain

SpecBare == Init /\ [][NextBare]_vars

\* ------------------------------------------------------- the client on its own
serverVars == <<wsState, endpoints, registeredEndpoints, registry, activeSessions,
                pendingConnections, security, counter, received, tasks, last>>

Methods == {"register", "connectOffer", "accept", "reject", "update", "close", "sendApp"}
Outcomes == {[status |-> 200, error |-> Null], [status |-> 204, error |-> Null],
             [status |-> 404, error |-> "target_unknown"]}
\* a message_id no request of the run carries
UnknownRequest == MaxCalls + 1

\* what the relay can send the client: a response to a frame it has taken, a
\* response to nothing the client has sent, a message forwarded from the peer
ResponseTo(response_to, o) ==
  [message_type |-> "response", source_id |-> serverSource, response_to |-> response_to,
   status |-> o.status, error |-> o.error]
Responses ==
  {ResponseTo(rt, o) : rt \in (1..MaxCalls) \cup {UnknownRequest}, o \in Outcomes}
\* the relay answers the frames it was sent
Answers(tr, msg) ==
  IF msg.message_type # "response" THEN TRUE
  ELSE msg.response_to \in {tr.wire[i].message_id : i \in 1..Len(tr.wire)} \cup {UnknownRequest}
PeerMessages ==
  {[message_type |-> type, source_id |-> Peer, target |-> EndpointA] :
     type \in {"connect", "accept", "reject", "update", "close", "application"}}

\* a call of a SwapClient method
ClientCall(method) ==
  /\ Len(client.calls) < MaxCalls
  /\ \E res \in {clientCall(client, transport, method)} :
        client' = res.client /\ transport' = res.transport
  /\ UNCHANGED <<serverVars, probe>>

\* a frame arrives on the open socket
ClientReceive(msg) ==
  /\ transport.ws = "open"
  /\ Answers(transport, msg)
  /\ client' = onClientMessage(client, msg)
  /\ UNCHANGED <<serverVars, probe, transport>>

\* the response timer of call k fires
Timeout(k) ==
  /\ k \in 1..Len(client.calls)
  /\ client.calls[k].timer = "armed"
  /\ client' = onTimeout(client, k)
  /\ UNCHANGED <<serverVars, probe, transport>>

\* transport.connect() called by the application, which waits for a scheduled
\* reconnect instead of connecting itself
TransportConnect ==
  /\ transport.ws \in {"null", "closed"}
  /\ ~transport.ctor
  /\ ~transport.reconnect.timer.armed
  /\ transport' = transportConnect(transport)
  /\ UNCHANGED <<serverVars, probe, client>>

\* the socket's 'open' event
TransportOpen(failAt) ==
  /\ transport.ws = "connecting"
  /\ transport' = onOpen(transport, failAt)
  /\ UNCHANGED <<serverVars, probe, client>>

\* the socket's 'close' event
TransportClose ==
  /\ transport.ws \in {"connecting", "open"}
  /\ transport' = onTransportClose(transport)
  /\ UNCHANGED <<serverVars, probe, client>>

InitClient ==
  /\ InitRelay /\ ~security.enabled
  /\ client \in {NewClient(NoIdentity), NewClient(FixedIdentity)}
  /\ transport = NewTransport

\* an open socket takes every frame: ws.send does not throw
NextClient ==
  \/ \E method \in Methods : ClientCall(method)
  \/ \E msg \in Responses \cup PeerMessages : ClientReceive(msg)
  \/ \E k \in 1..MaxCalls : Timeout(k)
  \/ TransportConnect
  \/ TransportOpen(0)
  \/ TransportClose

SpecClient == InitClient /\ [][NextClient]_vars

\* ---- one side of an offer/answer exchange with the peer, security disabled.
\* The requestor's application calls connectOffer; the answering side's
\* application calls accept when the client has emitted 'connect'.  The relay
\* forwards the peer's connect, accept and close, answers the frames the
\* client sent, and synthesizes a close when the peer's transport closes.
ForwardedConnect ==
  Message(Peer, 1, "connect", [offer |-> "v=0..o", criteria |-> <<ServiceVideo>>])
ForwardedAccept == Message(Peer, 2, "accept", [target |-> EndpointA, answer |-> "v=0..a"])
ForwardedClose == CloseMessage(3, EndpointA, Peer)
SynthesizedClose == CloseMessage(4, Peer, serverSource)

RelayResponses ==
  {ResponseMessage(5, rt, 200, "OK") : rt \in 1..MaxCalls}
    \cup {ErrorResponse(5, rt, TargetUnknown("No matching endpoint found")) : rt \in 1..MaxCalls}

SentTypes == {transport.wire[i].message_type : i \in 1..Len(transport.wire)}
Requesting == client.calls # <<>> /\ client.calls[1].method = "connectOffer"
Answering == client.calls # <<>> /\ client.calls[1].method = "accept"

\* the listener runs for a frame, and the application sees what it emits
Deliver(frame) ==
  /\ transport.ws = "open"
  /\ \E res \in {unpackResumes(client, frame)} :
        /\ client' = res.client
        /\ probe' = [op |-> "message", frame |-> frame, threw |-> res.threw,
                     emitted |-> res.emitted]
  /\ UNCHANGED <<serverVars, transport>>

DeliverResponse(frame) ==
  /\ frame.body.response_to \in {transport.wire[i].message_id : i \in 1..Len(transport.wire)}
  /\ Deliver(frame)

\* the peer's connect reaches a client that has not made an offer itself
DeliverConnect == ~Requesting /\ Deliver(ForwardedConnect)

\* the peer's accept follows the client's connect
DeliverAccept == Requesting /\ "connect" \in SentTypes /\ Deliver(ForwardedAccept)

\* a close ends the session the peer's accept began
DeliverClose(frame) ==
  /\ sessionKey(Peer, EndpointA) \in client.sessions
  /\ Deliver(frame)

Offer ==
  /\ client.calls = <<>> => probe.op = "none"
  /\ client.calls # <<>> => Requesting
  /\ ClientCall("connectOffer")

Answer ==
  /\ probe.op = "message"
  /\ probe.emitted # <<>>
  /\ probe.emitted[1].event = "connect"
  /\ client.calls = <<>> \/ Answering
  /\ ClientCall("accept")

InitExchange ==
  /\ InitRelay /\ ~security.enabled
  /\ client = NewClient(FixedIdentity)
  /\ transport = NewTransport

NextExchange ==
  \/ Offer
  \/ Answer
  \/ DeliverConnect
  \/ DeliverAccept
  \/ \E frame \in RelayResponses : DeliverResponse(frame)
  \/ \E k \in 1..MaxCalls : Timeout(k)
  \/ TransportConnect
  \/ TransportOpen(0)
  \/ TransportClose

SpecExchange == InitExchange /\ [][NextExchange]_vars

NextClosing ==
  \/ NextExchange
  \/ \E frame \in {ForwardedClose, SynthesizedClose} : DeliverClose(frame)

SpecClosing == InitExchange /\ [][NextClosing]_vars

\* ---- a client with security enabled and the relay's frames to it: protected
\* under the key the client holds or under another one, altered on the way,
\* or in plaintext
RelaySecurity(sourceId) == SecurityInit(ClientSecurityConfig, sourceId)

RelayedMessages ==
  {Message(Peer, 1, "connect", [offer |-> "v=0..o", criteria |-> <<ServiceVideo>>]),
   Message(Peer, 2, "accept", [target |-> EndpointA, answer |-> "v=0..a"]),
   ResponseMessage(1, 1, 200, "OK")}

Altered(frame) == [frame EXCEPT !.message_id = @ + 1]

InboundFrames ==
  LET sealed == {prepareOutgoing(RelaySecurity(sid), m) :
                   sid \in {EndpointA, Peer}, m \in RelayedMessages}
  IN sealed \cup {Altered(f) : f \in {g \in sealed : g.message_type = "accept"}}
            \cup {CloseMessage(4, Peer, serverSource)}

SecureMethods == {"register", "connectOffer", "close"}

SecureCall(method) ==
  /\ Len(client.calls) < MaxCalls
  /\ client' = secureCall(client, method)
  /\ UNCHANGED <<serverVars, probe, transport>>

\* prepareOutgoing settles for one of the waiting sends, in any order
SendResumes(k) ==
  \E s \in client.sending :
    /\ s.k = k
    /\ \E res \in {sendResumes(client, transport, s)} :
          client' = res.client /\ transport' = res.transport
    /\ UNCHANGED <<serverVars, probe>>

\* a frame arrives on the open socket; one listener run waits at a time
SecureReceive(frame) ==
  /\ transport.ws = "open"
  /\ Cardinality(client.unpacking) < MaxTasks
  /\ client' = [client EXCEPT !.unpacking = @ \cup {frame}]
  /\ UNCHANGED <<serverVars, probe, transport>>

UnpackResumes ==
  \E frame \in client.unpacking :
    \E res \in {unpackResumes(client, frame)} :
      /\ client' = res.client
      /\ probe' = [op |-> "message", frame |-> frame, threw |-> res.threw,
                   emitted |-> res.emitted]
      /\ UNCHANGED <<serverVars, transport>>

InitSecureClient ==
  /\ InitRelay /\ ~security.enabled
  /\ client \in {SecureClient(NoIdentity), SecureClient(FixedIdentity)}
  /\ transport = NewTransport

NextSecureClient ==
  \/ \E method \in SecureMethods : SecureCall(method)
  \/ \E k \in 1..MaxCalls : SendResumes(k)
  \/ \E frame \in InboundFrames : SecureReceive(frame)
  \/ UnpackResumes
  \/ TransportConnect
  \/ TransportOpen(0)
  \/ TransportClose

SpecSecureClient == InitSecureClient /\ [][NextSecureClient]_vars

\* ---- the transport on its own: the application sends numbered frames, and
\* ws.send may throw
NumberedFrame(n) ==
  [source_id |-> EndpointA, message_id |-> n, message_type |-> "application"]

TransportSend(throws) ==
  /\ transport.sends < MaxSends
  /\ transport' = transportSend(transport, NumberedFrame(transport.sends + 1), throws)
  /\ UNCHANGED <<serverVars, probe, client>>

InitTransport == Init /\ ~security.enabled

NextTransport ==
  \/ \E throws \in BOOLEAN : TransportSend(throws)
  \/ TransportConnect
  \/ \E failAt \in 0..MaxSends : TransportOpen(failAt)
  \/ TransportClose

SpecTransport == InitTransport /\ [][NextTransport]_vars

\* ---- the transport and its reconnection manager: sockets that fail to open,
\* open and close, close() called at any moment, and the reconnect timer
ConnectCall ==
  /\ transport.ws \in {"null", "closed"}
  /\ ~transport.ctor
  /\ ~transport.reconnect.timer.armed
  /\ transport' = connectBegin(transport)
  /\ UNCHANGED <<serverVars, probe, client>>

\* _getWebSocketCtor() has resolved: connect() creates the socket
SocketCreated ==
  /\ transport.ctor
  /\ transport' = connectSocket(transport)
  /\ UNCHANGED <<serverVars, probe, client>>

\* transport.close()
ManualClose ==
  /\ ~transport.manuallyClosed \/ transport.ws # "null"
  /\ transport' = closeTransport(transport)
  /\ UNCHANGED <<serverVars, probe, client>>

\* the reconnect timer fires
ReconnectTimer ==
  /\ transport.reconnect.timer.armed
  /\ transport' = onReconnectTimer(transport)
  /\ UNCHANGED <<serverVars, probe, client>>

InitReconnect ==
  /\ InitRelay /\ ~security.enabled
  /\ client = NewClient(NoIdentity)
  /\ transport \in {Transport(ReconnectionManager(enabled, MaxAttempts)) : enabled \in BOOLEAN}

NextReconnect ==
  \/ TransportSend(FALSE)
  \/ ConnectCall
  \/ SocketCreated
  \/ TransportOpen(0)
  \/ TransportClose
  \/ ManualClose
  \/ ReconnectTimer

SpecReconnect == InitReconnect /\ [][NextReconnect]_vars

\* ---- two SecurityManagers on their own: one packs a message, a second one
\* with the same configuration unpacks what the first produced
RoundTripConfigs ==
  {WithSalt(SecurityManager(enabled, integrity, encryption, SharedSecret), salt) :
     enabled \in BOOLEAN, integrity \in BOOLEAN, encryption \in BOOLEAN,
     salt \in {Null, "swap-v1:deployment"}}

\* schema-valid messages of every kind, as clients and the relay build them
RoundTripMessages ==
  {f.raw : f \in {g \in RegisterFrames \cup ConnectFrames \cup AcceptFrames \cup RejectFrames
                          \cup UpdateFrames \cup CloseFrames \cup ApplicationFrames
                          \cup ResponseFrames : ~g.raw.security.present}}
    \cup {ResponseMessage(1, 1, 200, "OK"),
          ErrorResponse(2, 1, TargetUnknown("Target endpoint not found"))}

\* prepareOutgoing(m) on a new SecurityManager(config)
RoundTripPack(config, m) ==
  /\ probe.op = "none"
  /\ probe' = [op |-> "prepareOutgoing", config |-> config, m |-> m,
               packed |-> prepareOutgoing(config, m)]
  /\ UNCHANGED <<serverVars, client, transport>>

\* unpackIncoming(packed) on another new SecurityManager(config)
RoundTripUnpack ==
  /\ probe.op = "prepareOutgoing"
  /\ probe' = [op |-> "unpackIncoming", config |-> probe.config, m |-> probe.m,
               packed |-> probe.packed,
               threw |-> IncomingThrows(probe.config, probe.packed),
               result |-> unpackIncoming(probe.config, probe.packed)]
  /\ UNCHANGED <<serverVars, client, transport>>

RoundTripReturn ==
  /\ probe.op = "unpackIncoming"
  /\ probe' = [op |-> "none"]
  /\ UNCHANGED <<serverVars, client, transport>>

InitRoundTrip == Init /\ ~security.enabled

NextRoundTrip ==
  \/ \E config \in RoundTripConfigs, m \in RoundTripMessages : RoundTripPack(config, m)
  \/ RoundTripUnpack
  \/ RoundTripReturn

SpecRoundTrip == InitRoundTrip /\ [][NextRoundTrip]_vars

\* ---- security blocks as they are produced: by prepareOutgoing of a new
\* SecurityManager, and by sign() and encrypt() called on a message
SetField(r, f, v) == [x \in DOMAIN r \cup {f} |-> IF x = f THEN v ELSE r[x]]
OwnBlock(m) == IF m.security.present THEN m.security ELSE [present |-> TRUE]

\* SwapMessage.sign({ sharedSecret })
messageSign(m, sharedSecret) ==
  LET block == OwnBlock(m)
      named == SetField(SetField(block, "mac", "HMAC-SHA256"), "enc",
                        IF "enc" \in DOMAIN block THEN block.enc ELSE "none")
      toSign == [m EXCEPT !.security = WithoutField(named, "signature")]
  IN [m EXCEPT !.security = SetField(named, "signature", Sign(toSign, sharedSecret))]

\* SwapMessage.encrypt({ sharedSecret })
messageEncrypt(m, sharedSecret) ==
  LET block == OwnBlock(m)
      aesKey == sharedSecret \o "|" \o "swap-v1:" \o m.source_id
      named == SetField(SetField(block, "enc", "AES-GCM"), "mac",
                        IF "mac" \in DOMAIN block THEN block.mac ELSE "none")
  IN [m EXCEPT !.security = SetField(SetField(named, "ciphertext", Encrypt(m.body, aesKey)),
                                     "iv", "iv"),
               !.body = NoPayload]

MessageNew(m) ==
  /\ probe.op = "none"
  /\ probe' = [op |-> "message", m |-> m, packed |-> m, steps |-> 0]
  /\ UNCHANGED <<serverVars, client, transport>>

MessageSign ==
  /\ probe.op = "message"
  /\ probe.steps < MaxEnvelopeSteps
  /\ probe' = [probe EXCEPT !.packed = messageSign(@, SharedSecret), !.steps = @ + 1]
  /\ UNCHANGED <<serverVars, client, transport>>

MessageEncrypt ==
  /\ probe.op = "message"
  /\ probe.steps < MaxEnvelopeSteps
  /\ probe' = [probe EXCEPT !.packed = messageEncrypt(@, SharedSecret), !.steps = @ + 1]
  /\ UNCHANGED <<serverVars, client, transport>>

EnvelopeReturn ==
  /\ probe.op \in {"message", "prepareOutgoing"}
  /\ probe' = [op |-> "none"]
  /\ UNCHANGED <<serverVars, client, transport>>

NextEnvelope ==
  \/ \E config \in RoundTripConfigs, m \in RoundTripMessages : RoundTripPack(config, m)
  \/ \E m \in RoundTripMessages : MessageNew(m)
  \/ MessageSign
  \/ MessageEncrypt
  \/ EnvelopeReturn

SpecEnvelope == InitRoundTrip /\ [][NextEnvelope]_vars

\* ---- the state machine on its own: apply and canSend called directly
Events == {"connect", "accept_incoming", "accept", "reject", "update", "close", "closed",
           "register", "application", "response"} \cup ObjectPrototypeKeys

MachineApply(event) ==
  /\ probe.op = "none"
  /\ client' = [client EXCEPT !.state = apply(@, event)]
  /\ probe' = [op |-> "apply", from |-> client.state, arg |-> event,
               result |-> apply(client.state, event)]
  /\ UNCHANGED <<serverVars, transport>>

MachineCanSend(messageType) ==
  /\ probe.op = "none"
  /\ probe' = [op |-> "canSend", from |-> client.state, arg |-> messageType,
               result |-> IF canSend(client.state, messageType) THEN "true" ELSE "false"]
  /\ UNCHANGED <<serverVars, client, transport>>

MachineReturn ==
  /\ probe.op \in {"apply", "canSend"}
  /\ probe' = [op |-> "none"]
  /\ UNCHANGED <<serverVars, client, transport>>

\* new StateMachine(initial)
InitMachine ==
  /\ InitRelay /\ ~security.enabled
  /\ client \in {[NewClient(NoIdentity) EXCEPT !.state = s] : s \in States}
  /\ transport = NewTransport

NextMachine ==
  \/ \E event \in Events : MachineApply(event)
  \/ \E messageType \in MessageTypes : MachineCanSend(messageType)
  \/ MachineReturn

SpecMachine == InitMachine /\ [][NextMachine]_vars

\* ---- the ReconnectionManager on its own: scheduleReconnect and reset are
\* called in any order, and the timeouts that are set fire at any time
BackoffConfigs ==
  {ReconnectionManagerWith(enabled, maxAttempts, initialDelay, 30000, 2) :
     enabled \in BOOLEAN, maxAttempts \in 0..MaxAttempts, initialDelay \in {1000, 20000}}

\* scheduleReconnect calls since the manager was made or reset
Since(p) == IF p.op \in {"scheduleReconnect", "reset", "timer"} THEN p.since ELSE 0

BackoffSchedule ==
  /\ Since(probe) <= MaxAttempts
  /\ Len(transport.reconnect.live) <= MaxAttempts
  /\ transport' = [transport EXCEPT !.reconnect = scheduleReconnect(@)]
  /\ probe' = [op |-> "scheduleReconnect", before |-> transport.reconnect,
               returned |-> scheduleReturns(transport.reconnect), since |-> Since(probe) + 1]
  /\ UNCHANGED <<serverVars, client>>

BackoffReset ==
  /\ transport' = [transport EXCEPT !.reconnect = reset(@)]
  /\ probe' = [op |-> "reset", before |-> transport.reconnect, since |-> 0]
  /\ UNCHANGED <<serverVars, client>>

BackoffTimer(i) ==
  /\ i \in 1..Len(transport.reconnect.live)
  /\ transport' = [transport EXCEPT !.reconnect = fire(@, i)]
  /\ probe' = [op |-> "timer", before |-> transport.reconnect, since |-> Since(probe)]
  /\ UNCHANGED <<serverVars, client>>

InitBackoff ==
  /\ InitRelay /\ ~security.enabled
  /\ client = NewClient(NoIdentity)
  /\ transport \in {Transport(rc) : rc \in BackoffConfigs}

NextBackoff ==
  \/ BackoffSchedule
  \/ BackoffReset
  \/ \E i \in 1..(MaxAttempts + 1) : BackoffTimer(i)

SpecBackoff == InitBackoff /\ [][NextBackoff]_vars

\* ------------------------------------------------------------------ claims
Writes(ev) == {ev.writes[k] : k \in 1..Len(ev.writes)}
WriteIndexes(ev) == 1..Len(ev.writes)

IsRelayResponse(f) == f.source_id = serverSource /\ f.message_type = "response"
IsOk(f, responseTo) ==
  /\ IsRelayResponse(f)
  /\ PayloadOf(f).status = 200
  /\ PayloadOf(f).response_to = responseTo
IsError(f, responseTo, type) ==
  /\ IsRelayResponse(f)
  /\ PayloadOf(f).response_to = responseTo
  /\ "error" \in DOMAIN PayloadOf(f)
  /\ PayloadOf(f).error.type = "http://forge.3gpp.org/sa4/swap/" \o type \o ".html"

Handled(type) ==
  last.kind = "message" /\ last.msg.message_type = type /\ validateMessageShape(last.msg)

InSession(sessions, s) == \E i \in 1..Len(sessions) : sessions[i].a = s \/ sessions[i].b = s

Closing(ws) == wsState[ws] = "open" /\ wsState'[ws] = "closed"

\* C1: after the close handler of a transport has run, every source_id that
\* registered over that transport is absent from the routing table, the
\* registration map and the matcher registry, and is a member of no session.
C1ClosedTransportLeavesNothing ==
  [][\A ws \in Transports : Closing(ws) =>
       \A s \in DOMAIN registeredEndpoints : registeredEndpoints[s].ws = ws =>
         /\ ~MapHas(endpoints', s)
         /\ s \notin DOMAIN registeredEndpoints'
         /\ ~MapHas(registry', s)
         /\ ~InSession(activeSessions', s)]_vars

\* C2: when endpoint A, in an active session with B, disconnects, B receives
\* exactly one close for that session and its source_id is A's source_id.
C2PeerGetsCloseFromA ==
  [][\A ws \in Transports : Closing(ws) =>
       \A i \in 1..Len(activeSessions) : \A A \in {activeSessions[i].a, activeSessions[i].b} :
         LET B == IF activeSessions[i].a = A THEN activeSessions[i].b ELSE activeSessions[i].a
             fromA(w) == /\ w.ws = MapGet(endpoints, B)
                         /\ w.frame.message_type = "close"
                         /\ w.frame.source_id = A
         IN (/\ MapHas(endpoints, A) /\ MapGet(endpoints, A) = ws
             /\ MapHas(endpoints, B) /\ MapGet(endpoints, B) # ws)
              => Cardinality({k \in WriteIndexes(last') : fromA(last'.writes[k])}) = 1]_vars

\* C3: an accept, reject, update or application whose target is in the routing
\* table is written to the target's transport and acked 200; one whose target
\* is absent is answered target_unknown, nothing is forwarded and (accept) no
\* session is created; no 200 without delivery.  (Stated for a target other
\* than the sender.)
C3RelayedOrUnknown ==
  \A type \in {"accept", "reject", "update", "application"} :
    (Handled(type) /\ TargetOf(last.msg) # last.msg.source_id) =>
    LET m == last.msg
        target == TargetOf(m)
        delivered(w) == w.frame.message_type = type /\ w.frame.source_id = m.source_id
        acked == \E w \in Writes(last) : w.ws = last.ws /\ IsOk(w.frame, m.message_id)
    IN IF MapHas(last.seen.endpoints, target)
         THEN /\ \E w \in Writes(last) :
                   delivered(w) /\ w.ws = MapGet(last.seen.endpoints, target)
              /\ acked
         ELSE /\ \E w \in Writes(last) :
                   w.ws = last.ws /\ IsError(w.frame, m.message_id, "target_unknown")
              /\ \A w \in Writes(last) : ~delivered(w)
              /\ ~acked
              /\ activeSessions = last.seen.activeSessions

\* C10: there is at most one active session per unordered pair {a, b} of
\* source_ids (stated for pairs of two different endpoints).
C10OneSessionPerPair ==
  \A i, j \in 1..Len(activeSessions) :
    (i # j /\ activeSessions[i].a # activeSessions[i].b)
      => {activeSessions[i].a, activeSessions[i].b}
           # {activeSessions[j].a, activeSessions[j].b}

\* the criteria of Q as (type, JSON text of value) pairs
CriterionPair(c) == <<c.type, JSONStringify(c.value)>>
CriterionPairs(criteria) == {CriterionPair(criteria[i]) : i \in 1..Len(criteria)}
Satisfies(reg, e, Q) ==
  /\ MapHas(reg, e)
  /\ CriterionPairs(Q) \subseteq CriterionPairs(MapGet(reg, e).criteria)

\* C4: a connect from S with criteria Q is forwarded to exactly one registered
\* endpoint other than S whose criteria contain Q, and S gets a 200 response
\* with response_to = the connect's message_id; when there is no such
\* endpoint nothing is forwarded and S gets a target_unknown error.
C4ConnectForwardedOrUnknown ==
  Handled("connect") =>
    LET m == last.msg
        S == m.source_id
        eligible == {e \in Sources \ {S} : Satisfies(last.seen.registry, e, CriteriaOf(m))}
        isForward(w) == w.frame.message_type = "connect"
        forwards == {k \in WriteIndexes(last) : isForward(last.writes[k])}
    IN IF eligible # {}
         THEN /\ Cardinality(forwards) = 1
              /\ \A k \in forwards : \E e \in eligible :
                    last.writes[k].ws = last.seen.registeredEndpoints[e].ws
              /\ \E w \in Writes(last) : w.ws = last.ws /\ IsOk(w.frame, m.message_id)
         ELSE /\ forwards = {}
              /\ \E w \in Writes(last) :
                    w.ws = last.ws /\ IsError(w.frame, m.message_id, "target_unknown")

\* a connect with a non-empty query was forwarded while another registered
\* endpoint did not qualify
C4Witness ==
  /\ Handled("connect")
  /\ Len(CriteriaOf(last.msg)) > 0
  /\ \E w \in Writes(last) : w.frame.message_type = "connect" /\ w.ws # last.ws
  /\ \E e \in MapKeys(last.seen.registry) \ {last.msg.source_id} :
        ~Satisfies(last.seen.registry, e, CriteriaOf(last.msg))

Correlated(ev) ==
  LET isReply(w) == /\ IsRelayResponse(w.frame)
                    /\ PayloadOf(w.frame).response_to = ev.raw.message_id
  IN {k \in WriteIndexes(ev) : isReply(ev.writes[k])}
Answered(ev) ==
  /\ Cardinality(Correlated(ev)) = 1
  /\ \A k \in Correlated(ev) : ev.writes[k].ws = ev.ws

C7FindMatchesIsSubsetTest ==
  probe.op = "findMatches" =>
    /\ \A e \in Sources :
         (e \in SeqToSet(probe.result)) <=> Satisfies(registry, e, probe.query)
    /\ SeqToSet(probe.result) \subseteq MapKeys(registry)
    /\ probe.query = <<>> => SeqToSet(probe.result) = MapKeys(registry)

\* a two-criteria query kept one registered endpoint and dropped another that
\* holds only one of the two criteria
C7Witness ==
  /\ probe.op = "findMatches"
  /\ Len(probe.query) = 2
  /\ probe.query[1] # probe.query[2]
  /\ probe.result # <<>>
  /\ \E e \in MapKeys(registry) \ SeqToSet(probe.result) :
       CriterionPairs(MapGet(registry, e).criteria) \cap CriterionPairs(probe.query) # {}

RegisteredCount(e) == IF MapHas(registry, e) THEN Len(MapGet(registry, e).criteria) ELSE 0
MostSpecific(matches) ==
  {e \in SeqToSet(matches) : \A o \in SeqToSet(matches) : RegisteredCount(o) <= RegisteredCount(e)}

\* C8: selectEndpoint(matches) returns none for an empty list; otherwise a
\* member of matches with the maximum registered criteria count, and every
\* member with that count is returned for some value of Math.random().
C8SelectPrefersMostSpecific ==
  probe.op = "selectEndpoint" =>
    IF probe.matches = <<>> THEN probe.result = Null
    ELSE /\ probe.result \in MostSpecific(probe.matches)
         /\ \A e \in MostSpecific(probe.matches) :
              \E r \in Randoms : selectEndpoint(registry, probe.matches, r) = e

\* a selection among three matches, two of them tied at the maximum, that
\* returned the later of the two
C8Witness ==
  /\ probe.op = "selectEndpoint"
  /\ Len(probe.matches) = 3
  /\ Cardinality(MostSpecific(probe.matches)) = 2
  /\ RegisteredCount(probe.result) > 0
  /\ \E i, j \in 1..3 : /\ i < j
                        /\ probe.matches[i] \in MostSpecific(probe.matches)
                        /\ probe.matches[j] = probe.result

\* B1 is registered with [service:video], B2 with [service:video, qos:high]
ResponderScenario(reg) ==
  /\ MapHas(reg, EndpointB1) /\ MapGet(reg, EndpointB1).criteria = <<ServiceVideo>>
  /\ MapHas(reg, EndpointB2) /\ MapGet(reg, EndpointB2).criteria = <<ServiceVideo, QosHigh>>

\* the targets _onConnect can select, over every value of Math.random()
PossibleTargets(reg, S, Q) ==
  {selectEndpoint(reg, ExcludingSender(findMatches(reg, Q), S), r) : r \in Randoms}

ScenarioConnect(Q) ==
  /\ Handled("connect")
  /\ last.msg.source_id \notin {EndpointB1, EndpointB2}
  /\ ResponderScenario(last.seen.registry)
  /\ CriteriaOf(last.msg) = Q

ForwardedOnlyTo(e) ==
  /\ \E w \in Writes(last) : w.frame.message_type = "connect"
  /\ \A w \in Writes(last) : w.frame.message_type = "connect" =>
       w.ws = last.seen.registeredEndpoints[e].ws

\* C9 as claimed: in that scenario a connect for [service:video, qos:high] is
\* always forwarded to B2, and a connect for [service:video] alone can be
\* forwarded to either B1 or B2.
C9EitherResponderForVideo ==
  /\ ScenarioConnect(<<ServiceVideo, QosHigh>>) =>
       /\ PossibleTargets(last.seen.registry, last.msg.source_id, CriteriaOf(last.msg))
            = {EndpointB2}
       /\ ForwardedOnlyTo(EndpointB2)
  /\ ScenarioConnect(<<ServiceVideo>>) =>
       PossibleTargets(last.seen.registry, last.msg.source_id, CriteriaOf(last.msg))
         = {EndpointB1, EndpointB2}

\* C9 as the code has it: in that scenario a connect for [service:video,
\* qos:high] and a connect for [service:video] alone are both always
\* forwarded to B2, the endpoint registered with more criteria; B1 is never
\* the target.
C9MostSpecificResponderAlways ==
  \A Q \in {<<ServiceVideo, QosHigh>>, <<ServiceVideo>>} : ScenarioConnect(Q) =>
    /\ PossibleTargets(last.seen.registry, last.msg.source_id, Q) = {EndpointB2}
    /\ ForwardedOnlyTo(EndpointB2)
    /\ \A w \in Writes(last) : w.frame.message_type = "connect" =>
         w.ws # last.seen.registeredEndpoints[EndpointB1].ws

\* a connect for [service:video] alone, matching both, went to B2
C9Witness ==
  /\ ScenarioConnect(<<ServiceVideo>>)
  /\ SeqToSet(findMatches(last.seen.registry, <<ServiceVideo>>)) = {EndpointB1, EndpointB2}
  /\ ForwardedOnlyTo(EndpointB2)

\* ---------------------------------------------------------------- close
SessionBetween(sessions, a, b) ==
  \E i \in 1..Len(sessions) : \/ (sessions[i].a = a /\ sessions[i].b = b)
                              \/ (sessions[i].b = a /\ sessions[i].a = b)

\* C11: after the relay has handled a close from a with target b, no active
\* session between a and b remains, a has a 200 ack whether or not b is in the
\* routing table, and the close was written to b's transport only when b was
\* in the routing table.  (Stated for a target other than the sender.)
C11CloseEndsSession ==
  (Handled("close") /\ TargetOf(last.msg) # last.msg.source_id) =>
    LET a == last.msg.source_id
        b == TargetOf(last.msg)
    IN /\ ~SessionBetween(activeSessions, a, b)
       /\ \E w \in Writes(last) : w.ws = last.ws /\ IsOk(w.frame, last.msg.message_id)
       /\ (\E w \in Writes(last) : w.frame.message_type = "close")
            => MapHas(last.seen.endpoints, b)

\* ------------------------------------------------------- unknown and bad frames
\* the base fields of m are those of a message; its kind may be unknown
WellFormedEnvelope(m) == m.version = 1 /\ Len(m.source_id) >= 10 /\ m.message_id >= 1

\* C12: a message that is otherwise well formed but whose message_type is not
\* one of the eight known kinds is answered with an error response of kind
\* message_unknown (not message_malformatted).
C12UnknownTypeGetsMessageUnknown ==
  (/\ last.kind = "message"
   /\ last.msg.message_type \notin MessageTypes
   /\ WellFormedEnvelope(last.msg)) =>
     /\ \E w \in Writes(last) :
           w.ws = last.ws /\ IsError(w.frame, last.msg.message_id, "message_unknown")
     /\ \A w \in Writes(last) :
           ~IsError(w.frame, last.msg.message_id, "message_malformatted")

\* the handler run that completes in this step was given a frame that is no
\* JSON object, a frame whose security envelope does not unpack, or a frame
\* that fails the schema
RejectsFrame ==
  /\ last = NoEvent
  /\ \/ last'.kind \in {"data", "rejection"}
     \/ /\ last'.kind = "message"
        /\ \/ ~validateMessageShape(last'.msg)
           \/ \E i \in 1..MaxTasks : /\ tasks[i].stage = "unpacking"
                                     /\ tasks'[i].stage = "idle"
                                     /\ IncomingThrows(security, tasks[i].raw)

\* C13: every inbound frame that is not a JSON message object, fails the
\* envelope unpack or fails the schema is answered with one
\* message_malformatted error on the sender's transport (response_to 0 when
\* the frame is no message, else the frame's message_id), leaves the routing
\* table, registrations, registry, sessions and pending connects unchanged,
\* and the relay goes on serving every connection.
C13BadFrameAnsweredMalformatted ==
  [][RejectsFrame =>
       LET responseTo == IF last'.kind = "message" THEN last'.raw.message_id ELSE 0
       IN /\ Len(last'.writes) = 1
          /\ last'.writes[1].ws = last'.ws
          /\ IsError(last'.writes[1].frame, responseTo, "message_malformatted")
          /\ UNCHANGED <<endpoints, registeredEndpoints, registry, activeSessions,
                         pendingConnections>>
          /\ wsState' = wsState]_vars

\* ------------------------------------------------------------------- client
\* this step is a call of a SwapClient method that built a message of that kind
Calls(type) ==
  /\ Len(client'.calls) = Len(client.calls) + 1
  /\ MethodType(client'.calls[Len(client'.calls)].method) = type

\* C14: the client never sends or enqueues a message whose kind its state
\* does not permit (idle: register, connect; connecting: accept, reject,
\* update, close, application, response; connected: update, close,
\* application, response; closing: response); a disallowed call leaves the
\* pending table, the state and the transport as they were.
C14OnlyPermittedKindsSent ==
  [][\A type \in MessageTypes :
       IF canSend(client.state, type)
         THEN TRUE
         ELSE ~Calls(type)]_vars

\* the transition table as the specification lists it
SpecifiedNext(state, event) ==
  CASE state = "idle" /\ event \in {"connect", "accept_incoming"} -> "connecting"
    [] state = "connecting" /\ event = "accept" -> "connected"
    [] state = "connecting" /\ event = "reject" -> "idle"
    [] state = "connected" /\ event = "update" -> "connected"
    [] state = "connected" /\ event = "close" -> "closing"
    [] state = "closing" /\ event = "closed" -> "idle"
    [] OTHER -> state

\* C15: apply implements exactly the transition table; for every other
\* (state, event) pair the state is unchanged; the state is always one of
\* idle, connecting, connected, closing.
C15ApplyFollowsTable ==
  /\ client.state \in States
  /\ probe.op = "apply" => probe.result = SpecifiedNext(probe.from, probe.arg)

\* C16: a connected client that sends close moves to closing (and returns to
\* idle once the close has completed).
C16CloseMovesToClosing ==
  [][(client.state = "connected" /\ Calls("close")) => client'.state = "closing"]_vars

\* C17: a response whose response_to is the key of a pending entry removes
\* the entry, clears its timer and completes the call: resolved iff the
\* status is in 200..299, otherwise rejected with the status and the problem
\* of the response; every other call and entry is untouched.  A response
\* that matches no entry changes nothing.
C17ResponseSettlesPending ==
  \A msg \in Responses :
    LET after == handleResponse(client, msg)
    IN IF msg.response_to \in DOMAIN client.pending
         THEN LET k == client.pending[msg.response_to]
              IN /\ DOMAIN after.pending = DOMAIN client.pending \ {msg.response_to}
                 /\ \A id \in DOMAIN after.pending : after.pending[id] = client.pending[id]
                 /\ after.calls[k].timer = "cleared"
                 /\ client.calls[k].outcome = "pending"
                 /\ IF msg.status \in 200..299
                      THEN after.calls[k].outcome = "resolved"
                      ELSE /\ after.calls[k].outcome = "rejected"
                           /\ after.calls[k].status = msg.status
                           /\ after.calls[k].problem = msg.error
                 /\ \A j \in 1..Len(client.calls) : j # k => after.calls[j] = client.calls[j]
                 /\ after.state = client.state
         ELSE after = client

\* two calls have been answered: one resolved by a 204, one rejected by a 404
\* carrying its problem, both timers cleared and no entry left
C17Witness ==
  /\ Len(client.calls) = 2
  /\ \E j, k \in 1..2 :
        /\ client.calls[j].outcome = "resolved" /\ client.calls[j].status = 204
        /\ client.calls[k].outcome = "rejected" /\ client.calls[k].status = 404
        /\ client.calls[k].problem = "target_unknown"
        /\ client.calls[j].timer = "cleared" /\ client.calls[k].timer = "cleared"
  /\ client.pending = <<>>

\* C18: every request completes exactly once, and after its outcome the
\* pending table has no entry for its message_id (so that a response arriving
\* after the timeout finds nothing and is ignored).
C18CompletesOnceLeavingNoEntry ==
  /\ [](\A k \in 1..Len(client.calls) :
          client.calls[k].outcome # "pending"
            => client.calls[k].message_id \notin DOMAIN client.pending)
  /\ [][\A k \in 1..Len(client.calls) :
          client.calls[k].outcome # "pending"
            => /\ client'.calls[k].outcome = client.calls[k].outcome
               /\ client'.calls[k].status = client.calls[k].status]_vars

\* C19: when the transport closes, every pending entry is cancelled at that
\* point: removed from the pending table, its caller completed with an error.
C19CloseCancelsPending ==
  [][(transport.ws \in {"connecting", "open"} /\ transport'.ws \in {"null", "closed"}) =>
       /\ client'.pending = <<>>
       /\ \A k \in 1..Len(client'.calls) : client'.calls[k].outcome # "pending"]_vars

\* ---------------------------------------------------------------- transport
NoDuplicates(seq) == \A i, j \in 1..Len(seq) : i # j => seq[i] # seq[j]

\* C20: a send while the socket is not open is queued; at the next open the
\* queued frames are transmitted in the order they were sent, each once, ahead
\* of anything sent after the open; when transmitting a queued frame fails,
\* that frame and all later ones stay queued in their original order.
C20QueueFlushedInOrder ==
  /\ [](\A failAt \in 0..MaxSends :
          LET q == transport.queue
              res == flush(q, failAt)
          IN IF failAt \in 1..Len(q)
               THEN /\ res.sent = SubSeq(q, 1, failAt - 1)
                    /\ res.queue = SubSeq(q, failAt, Len(q))
               ELSE res.sent = q /\ res.queue = <<>>)
  /\ [](NoDuplicates(transport.wire \o transport.queue))
  /\ [][(transport'.sends = transport.sends + 1 /\ transport.ws # "open") =>
          /\ transport'.queue = Append(transport.queue, NumberedFrame(transport'.sends))
          /\ transport'.wire = transport.wire]_vars
  /\ [][(transport.ws = "connecting" /\ transport'.ws = "open") =>
          \E n \in 0..Len(transport.queue) :
             /\ transport'.wire = transport.wire \o SubSeq(transport.queue, 1, n)
             /\ transport'.queue = SubSeq(transport.queue, n + 1, Len(transport.queue))]_vars

\* three frames were queued, the flush at open failed at the second: the
\* first is on the wire, the second and third are still queued in order
C20Witness ==
  /\ transport.ws = "open"
  /\ transport.wire = <<NumberedFrame(1)>>
  /\ transport.queue = <<NumberedFrame(2), NumberedFrame(3)>>

\* the socket's close event arrives on a transport nobody called close() on
UnexpectedClose ==
  /\ transport.ws = "open" /\ transport'.ws # "open"
  /\ ~transport.manuallyClosed /\ ~transport'.manuallyClosed

\* a connect() called by the reconnect task creates its socket
ReconnectSocketIsCreated ==
  transport.reconnecting /\ transport.ws # "connecting" /\ transport'.ws = "connecting"

\* C21: when a transport that had opened is closed by the peer or the network
\* (not by close()), a reconnect is scheduled, provided fewer than maxAttempts
\* attempts were made since the last open; after close() no new socket is
\* ever created.
C21ReconnectAfterUnexpectedClose ==
  /\ [][(/\ UnexpectedClose
          /\ transport.reconnect.enabled
          /\ transport.reconnect.attempts < transport.reconnect.maxAttempts)
           => transport'.reconnect.timer.armed]_vars
  /\ [][transport.manuallyClosed => ~ReconnectSocketIsCreated]_vars

\* the message_ids of the relay's own frames that a suspended dispatch has
\* built and not yet written
HeldIds ==
  {tasks[i].frame.message_id :
     i \in {j \in Busy : tasks[j].stage \in {"forwarding", "acking"}
                          /\ tasks[j].frame.source_id = serverSource}}

\* the message_ids the relay has put on the wire: all it has built but those
TransmittedIds == (1..counter) \ HeldIds

OwnFrames(writes) == {k \in 1..Len(writes) : writes[k].frame.source_id = serverSource}

\* C22: for every source_id, the message_ids of the messages it puts on the
\* wire are positive and strictly increasing in transmission order: the
\* relay's own responses and closes, and the frames of a client.
C22MessageIdsIncrease ==
  /\ [][(last = NoEvent /\ last' # NoEvent) =>
          /\ \A k \in OwnFrames(last'.writes) :
                /\ last'.writes[k].frame.message_id >= 1
                /\ \A n \in TransmittedIds : n < last'.writes[k].frame.message_id
          /\ \A j, k \in OwnFrames(last'.writes) :
                j < k => last'.writes[j].frame.message_id < last'.writes[k].frame.message_id]_vars
  /\ [](\A j, k \in 1..Len(transport.wire) :
          /\ transport.wire[k].message_id >= 1
          /\ (j < k /\ transport.wire[j].source_id = transport.wire[k].source_id)
               => transport.wire[j].message_id < transport.wire[k].message_id)

\* the frames the client has handed to its transport, transmitted or queued
ClientFrames ==
  {transport.wire[i] : i \in 1..Len(transport.wire)}
    \cup {transport.queue[i] : i \in 1..Len(transport.queue)}

\* C23: all messages sent by one SwapClient carry the same source_id, of
\* length at least 10: the source_id it registered under is the one its
\* later connect, accept, update and close messages are sent from.
C23OneSourceIdPerClient ==
  \A f, g \in ClientFrames : Len(f.source_id) >= 10 /\ f.source_id = g.source_id

\* endpoint e is registered in table reg with integrity or encryption support
Advertised(reg, e) == e \in DOMAIN reg /\ wantsSec(reg[e].capabilities)

\* the relay, not the sender, put the security block on the frame it wrote
RelayWrapped(ev, w) ==
  w.frame.security.present /\ (ev.kind = "message" => w.frame.security # ev.msg.security)

\* the endpoint the forward of the handled message is addressed to
ForwardTarget(ev) ==
  IF ev.msg.message_type = "connect"
    THEN IF ev.msg.source_id \in DOMAIN pendingConnections
           THEN pendingConnections[ev.msg.source_id].target ELSE Undefined
    ELSE TargetOf(ev.msg)

\* C24: the relay wraps a frame it writes to endpoint e in a security
\* envelope if and only if its security is enabled and e advertised integrity
\* or encryption support in its register: forwarded messages, 200 acks, error
\* responses and the close synthesized when a peer disconnects.
C24WrappedIffNegotiated ==
  /\ [](last.kind = "message" =>
          \A w \in Writes(last) :
            LET src == last.raw.source_id
            IN IF IsRelayResponse(w.frame)
                 THEN IF Handled("register")
                        THEN RelayWrapped(last, w)
                               <=> (security.enabled /\ wantsSec(CapabilitiesOf(last.msg)))
                        ELSE /\ (/\ security.enabled
                                 /\ Advertised(last.seen.registeredEndpoints, src)
                                 /\ Advertised(registeredEndpoints, src))
                                  => RelayWrapped(last, w)
                             /\ (\/ ~security.enabled
                                 \/ /\ ~Advertised(last.seen.registeredEndpoints, src)
                                    /\ ~Advertised(registeredEndpoints, src))
                                  => ~RelayWrapped(last, w)
                 ELSE RelayWrapped(last, w)
                        <=> (/\ security.enabled
                             /\ Advertised(last.seen.registeredEndpoints, ForwardTarget(last))))
  /\ [][\A ws \in Transports : Closing(ws) =>
          \A k \in WriteIndexes(last') : \A e \in DOMAIN registeredEndpoints :
            (/\ MapHas(endpoints, e) /\ MapGet(endpoints, e) = last'.writes[k].ws
             /\ MapGet(endpoints, e) # ws
             /\ \E i \in 1..Len(activeSessions) :
                   {activeSessions[i].a, activeSessions[i].b}
                     = {e, TargetOf(last'.writes[k].frame)})
              => (RelayWrapped(last', last'.writes[k])
                    <=> (security.enabled /\ Advertised(registeredEndpoints, e)))]_vars

\* the endpoint a frame written by the handler run ev is addressed to
Recipient(ev, w) == IF IsRelayResponse(w.frame) THEN ev.raw.source_id ELSE ForwardTarget(ev)

\* C25: with integrity and encryption enabled on the relay and on the clients
\* under one shared secret, every protected message is unpacked on the other
\* side of its hop: the relay unpacks the protected messages of every client,
\* whichever sent first, and a client unpacks every protected frame the relay
\* sends it and finds the payload the originator sent.
C25ProtectedHopsUnpack ==
  last.kind = "message" =>
    /\ last.raw.security.present =>
          /\ ~last.msg.security.present
          /\ last.msg.body = PayloadOf(last.raw)
          /\ \A w \in Writes(last) :
                ~IsError(w.frame, last.raw.message_id, "message_malformatted")
    /\ \A w \in Writes(last) :
          RelayWrapped(last, w) =>
            LET mine == ClientSecurity(Recipient(last, w))
            IN /\ ~IncomingThrows(mine, w.frame)
               /\ ~IsRelayResponse(w.frame) =>
                     unpackIncoming(mine, w.frame).body = PayloadOf(last.raw)

\* C26: for two SecurityManagers with the same shared secret, flags and salt,
\* unpackIncoming(prepareOutgoing(m)) has the version, source_id, message_id,
\* message_type and payload fields of m with the same values, for every
\* schema-valid m, and the packed form passes schema validation.
C26RoundTripKeepsMessage ==
  probe.op = "unpackIncoming" =>
    /\ validateMessageShape(probe.m)
    /\ ~probe.threw
    /\ probe.result.version = probe.m.version
    /\ probe.result.source_id = probe.m.source_id
    /\ probe.result.message_id = probe.m.message_id
    /\ probe.result.message_type = probe.m.message_type
    /\ probe.result.body = probe.m.body
    /\ validateMessageShape(probe.packed)

\* C27: when a client with security enabled fails to verify or decrypt an
\* inbound message, the listener run for it applies no state-machine
\* transition, leaves the session table and the pending table as they were,
\* emits no event, and hands the transport a message_malformatted error
\* response for it.
HandedToTransport(tr) ==
  {tr.wire[i] : i \in 1..Len(tr.wire)} \cup {tr.queue[i] : i \in 1..Len(tr.queue)}

C27FailedUnpackIsNotProcessed ==
  [][(UnpackResumes /\ probe'.threw) =>
        /\ client'.state = client.state
        /\ client'.sessions = client.sessions
        /\ client'.pending = client.pending
        /\ probe'.emitted = <<>>
        /\ \E f \in HandedToTransport(transport') \ HandedToTransport(transport) :
              /\ f.message_type = "response"
              /\ "error" \in DOMAIN PayloadOf(f)
              /\ PayloadOf(f).response_to = probe'.frame.message_id
              /\ PayloadOf(f).error.type =
                    "http://forge.3gpp.org/sa4/swap/message_malformatted.html"]_vars

\* C28: the relay dispatches a message only if the payload fields of its
\* kind are there (a connect has offer and criteria, an accept, reject,
\* update, close or application has a target) or its security block carries
\* the payload as ciphertext with an iv; a message that lacks them and whose
\* security block is empty or has no ciphertext is answered as invalid.
Dispatched(ev) ==
  /\ ev.kind = "message"
  /\ \A w \in Writes(ev) : ~IsError(w.frame, ev.raw.message_id, "message_malformatted")

CarriesCiphertext(m) ==
  m.security.present /\ {"ciphertext", "iv"} \subseteq DOMAIN m.security

C28DispatchedHasKindFields ==
  Dispatched(last) =>
    \/ RequiredFields(last.msg.message_type) \subseteq DOMAIN last.msg.body
    \/ CarriesCiphertext(last.msg)

\* C29: the relay holds at most one registration per source_id; the
\* registration map and the matcher registry hold the same source_ids in
\* every state; and once a source has re-registered with other criteria C2,
\* findMatches(Q) returns it exactly when Q is a subset of C2.
C29Queries == ConnectCriteria \cup {<<>>, <<QosHigh>>}

OneRegistrationEach ==
  \A i, j \in 1..Len(registry) : registry[i].k = registry[j].k => i = j

SameSourceIds == DOMAIN registeredEndpoints = MapKeys(registry)

Reregisters(s) ==
  /\ s \in DOMAIN registeredEndpoints
  /\ s \in DOMAIN registeredEndpoints'
  /\ registeredEndpoints'[s].criteria # registeredEndpoints[s].criteria

Overtakes(i) ==
  /\ tasks[i].stage # "idle"
  /\ tasks'[i] = tasks[i]
  /\ last = NoEvent
  /\ last'.kind = "message"
  /\ last'.ws = tasks[i].ws
  /\ last'.writes # <<>> \/ Tables(Relay)' # Tables(Relay)

C30EffectsInArrivalOrder ==
  [][\A i \in 1..MaxTasks : ~Overtakes(i)]_vars

\* C31: the relay never writes a frame (forward, ack, error or synthesized
\* close) to a transport whose close handler has already run: every frame
\* written in a step goes to a transport that is open when the step begins.
WritesAfter(writes, n) == {writes[k] : k \in (n + 1)..Len(writes)}

\* the frames written in the step: by a handler run that completes at once,
\* by one that gets suspended, or by a suspended one that goes on
NewWrites ==
  IF tasks' = tasks
    THEN IF last = NoEvent /\ last' # NoEvent THEN Writes(last') ELSE {}
    ELSE UNION {IF tasks'[i] = tasks[i] THEN {}
                ELSE IF tasks'[i].stage = "idle"
                  THEN IF last' # NoEvent
                         THEN WritesAfter(last'.writes, Len(tasks[i].writes)) ELSE {}
                  ELSE WritesAfter(tasks'[i].writes,
                                   IF tasks[i].stage = "idle" THEN 0 ELSE Len(tasks[i].writes)) :
                i \in 1..MaxTasks}

C31NoWriteToClosedTransport ==
  [][\A w \in NewWrites : wsState[w.ws] = "open"]_vars

\* C32: the relay never acts on a message whose target is its own
\* source_id: it forwards no such message, acks none with 200, and no
\* session has the same source_id as both members.
TargetedTypes == {"accept", "reject", "update", "close", "application"}

SelfTargeted(ev) ==
  /\ ev.kind = "message"
  /\ ev.msg.message_type \in TargetedTypes
  /\ TargetOf(ev.msg) = ev.msg.source_id

C32NoSelfTarget ==
  /\ SelfTargeted(last) =>
        \A w \in Writes(last) :
          /\ w.frame.source_id = serverSource
          /\ ~IsOk(w.frame, last.msg.message_id)
  /\ \A i \in 1..Len(activeSessions) : activeSessions[i].a # activeSessions[i].b

\* C33: once an accept or reject addressed to requestor r has been handled,
\* or r's transport has closed, the pending-connect table has no entry for r
\* (the table is a map, so it never holds two entries for one requestor).
\* Stated for handler runs that are not suspended, whose dispatch and effects
\* are one step.
HandledAtOnce(types) ==
  /\ last = NoEvent
  /\ tasks' = tasks
  /\ last'.kind = "message"
  /\ last'.msg.message_type \in types
  /\ Dispatched(last')

C33PendingConnectEnds ==
  /\ [][HandledAtOnce({"accept", "reject"}) =>
           TargetOf(last'.msg) \notin DOMAIN pendingConnections']_vars
  /\ [][\A ws \in Transports : Closing(ws) =>
           \A r \in DOMAIN pendingConnections :
             (MapHas(endpoints, r) /\ MapGet(endpoints, r) = ws) =>
                r \notin DOMAIN pendingConnections']_vars

\* C34: after the client has processed an inbound close that ends its
\* session with peer P, forwarded from P or synthesized by the relay when P
\* disconnected, its session table has no session with P and it has emitted
\* a close event naming P.
SessionsWith(c, p) == {k \in c.sessions : p \in k}

C34CloseEndsSession ==
  [][\A frame \in {ForwardedClose, SynthesizedClose} :
       DeliverClose(frame) =>
         /\ SessionsWith(client', Peer) = {}
         /\ \E i \in 1..Len(probe'.emitted) :
               probe'.emitted[i].event = "close" /\ probe'.emitted[i].from = Peer]_vars

\* C39: when a connectOffer ends without a session (a non-2xx response or
\* the response timeout rejects it while the client is connecting), the
\* state machine is back in idle and permits a connect and a register.
OfferFails(k) ==
  /\ k \in 1..Len(client.calls)
  /\ client.calls[k].method = "connectOffer"
  /\ client.calls[k].outcome = "pending"
  /\ client'.calls[k].outcome = "rejected"
  /\ client.state = "connecting"
  /\ SessionsWith(client, Peer) = {}

C39FailedOfferReturnsToIdle ==
  [][\A k \in 1..MaxCalls : OfferFails(k) =>
       /\ client'.state = "idle"
       /\ canSend(client'.state, "connect")
       /\ canSend(client'.state, "register")]_vars

\* C40: when an offer/answer exchange is complete the state machine is in
\* connected on both sides: for the requestor once its connect is acked and
\* the peer's accept has arrived, for the answering side once the accept it
\* sent upon the peer's connect is acked.
RequestorDone(c) ==
  /\ \E k \in 1..Len(c.calls) :
        c.calls[k].method = "connectOffer" /\ c.calls[k].outcome = "resolved"
  /\ sessionKey(Peer, EndpointA) \in c.sessions

AnswererDone(c) ==
  \E k \in 1..Len(c.calls) : c.calls[k].method = "accept" /\ c.calls[k].outcome = "resolved"

C40BothSidesConnected ==
  /\ [][(~RequestorDone(client) /\ RequestorDone(client')) =>
           client'.state = "connected"]_vars
  /\ [][(~AnswererDone(client) /\ AnswererDone(client')) =>
           client'.state = "connected"]_vars

\* C35: the k-th scheduleReconnect call since the last reset (k = 0, 1, ...)
\* sets one timeout of min(initialDelay * backoffMultiplier^k, maxDelay) and
\* returns true while the manager is enabled and k < maxAttempts, and
\* otherwise sets none and returns false; after reset the attempt count is 0
\* and no task is scheduled any more.
C35BackoffSchedule ==
  /\ probe.op = "scheduleReconnect" =>
        LET before == probe.before
            after == transport.reconnect
            k == probe.since - 1
        IN IF before.enabled /\ k < before.maxAttempts
             THEN /\ probe.returned
                  /\ after.live =
                       Append(before.live,
                              Min(before.initialDelay * Pow(before.backoffMultiplier, k),
                                  before.maxDelay))
             ELSE ~probe.returned /\ after.live = before.live
  /\ probe.op = "reset" =>
        transport.reconnect.attempts = 0 /\ transport.reconnect.live = <<>>

\* C36: every security block produced by prepareOutgoing of an enabled
\* SecurityManager or by SwapMessage.sign/encrypt is coherent: ciphertext is
\* there iff iv is there iff enc is AES-GCM, signature is there iff mac is
\* HMAC-SHA256, and enc and mac are not both none.
Coherent(block) ==
  /\ block.present
  /\ ("ciphertext" \in DOMAIN block) <=> ("iv" \in DOMAIN block)
  /\ ("iv" \in DOMAIN block) <=> (block.enc = "AES-GCM")
  /\ ("signature" \in DOMAIN block) <=> (block.mac = "HMAC-SHA256")
  /\ block.enc # "none" \/ block.mac # "none"

Produced ==
  \/ probe.op = "prepareOutgoing" /\ probe.config.enabled
  \/ probe.op = "message" /\ probe.steps > 0

C36EnvelopeCoherent == Produced => Coherent(probe.packed.security)

\* C37: with relay security and integrity enabled, an inbound message that
\* carries a security block is dispatched only if the block carries a
\* signature that verifies under the shared secret over the rest of the
\* message; without a signature, or with altered signed content, the sender
\* is answered message_malformatted and the message is not dispatched.
VerifiesUnder(raw, sharedSecret) ==
  /\ "signature" \in DOMAIN raw.security
  /\ raw.security.signature =
       Sign([raw EXCEPT !.security = WithoutField(@, "signature")], sharedSecret)

Enveloped(ev) ==
  /\ ev.kind = "message"
  /\ ev.raw.security.present
  /\ wsState[ev.ws] = "open"

C37OnlySignedDispatched ==
  (security.enabled /\ security.integrity /\ Enveloped(last)) =>
    IF VerifiesUnder(last.raw, security.sharedSecret)
      THEN TRUE
      ELSE \E w \in Writes(last) :
             w.ws = last.ws /\ IsError(w.frame, last.raw.message_id, "message_malformatted")

\* C38: in every relay state, for each registered source_id the transport
\* stored in its registration is the transport the routing table maps that
\* source_id to; a valid message with a registered source_id arriving on
\* another transport does not make the two differ.
RoutedOn(s) == IF MapHas(endpoints, s) THEN MapGet(endpoints, s) ELSE Null

C38RegistrationOnRoutedTransport ==
  \A s \in DOMAIN registeredEndpoints : RoutedOn(s) = registeredEndpoints[s].ws
====
